---- MODULE Spec2Model ----
(***************************************************************************)
(* A model of the shakenfist control-plane core: the agent operation       *)
(* state machine (agentoperation.py), the etcd wrapper with its queues,    *)
(* locks and read-only cache (etcd.py) and the side channel monitor        *)
(* (daemons/sidechannel.py).                                               *)
(*                                                                         *)
(* Each subsystem has its own specification (SpecOp, SpecQueue, ...).  The *)
(* variables of the other subsystems keep their initial values in it.      *)
(***************************************************************************)
EXTENDS Integers, Sequences, FiniteSets, TLC

VARIABLES
    \* ---- agent operation objects (agentoperation.py)
    opExists,       \* uuid -> whether /sf/agentoperation/<uuid> exists
    opStatic,       \* uuid -> the static payload's command list
    lastNew,        \* history: the last call of AgentOperation.new
    opState,        \* uuid -> the value of the state attribute
    lastWrite,      \* the last state write: who, from, to, whether it succeeded
    \* ---- the clock (time.time())
    now,
    \* ---- queues in etcd (etcd.py)
    kv,             \* the entries under /sf/queue and /sf/processing
    isNetNode,      \* config.NODE_IS_NETWORK_NODE of the local node
    disp,           \* the dispatchers that exist
    qnames,         \* the queue names in use
    dpc,            \* dispatcher -> where it is in dequeue()
    dq,             \* dispatcher -> the queue name it called dequeue() with
    djob,           \* dispatcher -> the jobname it read
    ditem,          \* dispatcher -> the decoded workitem it read (and returned)
    rpc,            \* where restart_queues() is
    rq,             \* the queue _restart_queue() is working on
    rlist,          \* the processing entries _restart_queue() still has to move
    enq,            \* history: rand -> what was enqueued under it
    resolved,       \* history: the rands resolve() was called for
    handed,         \* history: rand -> hand-outs since the last restart_queues()
    prior,          \* history: the rands handed out before the last crash
    lastOut,        \* history: dispatcher -> the queue and time prefix of the
                    \* job dequeue() last returned to it and the time
                    \* prefix of the one before, while nothing has been
                    \* added to a queue since
    lastLen,        \* history: what the last get_queue_length() returned
    \* ---- locks in etcd (etcd.py)
    locks,          \* lock key -> the holder written there ({node, pid}), or none
    alive,          \* process -> whether it runs
    lpc,            \* process -> where it is in ActualLock.__enter__ / __exit__
    lk,             \* process -> the key of its lock object
    lstart,         \* process -> start_time of its __enter__
    lwake,          \* process -> when its time.sleep(1) ends
    lexp,           \* process -> when the lease of its last acquire() expires
    holderSeen,     \* process -> what get_holder() returned before it gave up
    spc,            \* where clear_stale_locks() is
    slist,          \* the locks clear_stale_locks() read and has still to look at
    wasDead,        \* history: the processes not running when it was called
    removed,        \* history: the locks it has deleted, as they were then
    \* ---- the thread-local read-only cache and plain objects (etcd.py)
    roCache,        \* thread -> whether its read-only cache is set
    cobj,           \* thread -> cache object -> whether it is built or
                    \* entered, and how deep its scope is nested
    lastCache,      \* history: the last call on a cache object
    db,             \* (object type, name) -> the value stored, or none
    cerr,           \* whether the last call made under a cache was forbidden
    \* ---- the side channel monitor of one instance (daemons/sidechannel.py)
    monAlive,       \* whether the instance's monitor process runs
    scOpen,         \* channel -> whether it is in sc_clients
    scConnected,    \* channel -> sc_connected
    lastData,       \* channel -> last_data, the time of the last inbound byte
    ready,          \* channel -> instance_ready
    agentState,     \* the instance's agent_state attribute
    bootTime,       \* channel -> system_boot_time
    pollTasks,      \* channel -> how often is_system_running is a poll task
    fileGet,        \* channel -> whether a file get is incomplete
    opQueue,        \* the instance's queue of agent operations
    opError,        \* uuid -> whether the error attribute was set
    lastPoll,       \* history: what the last poll() did
    \* ---- packet handlers of a channel (daemons/sidechannel.py)
    lastRecv,       \* history: what the last dispatch_packet() did
    realBoot,       \* history: channel -> the last boot time an agent reported
    startTime,      \* the instance's agent_start_time
    flo,            \* channel -> the chunks written to the staging file
    statResult,     \* channel -> whether the stat result is in the record
    \* ---- the node's side channel supervisor (daemons/sidechannel.py)
    supPc,          \* where Monitor.run() is
    vmRunning,      \* instance -> libvirt reports its domain as running
    monitors,       \* instance -> self.monitors: the child recorded for it
    childInst,      \* child -> the instance it was forked for
    childAlive,     \* child -> whether the process runs
    nextChild,      \* the next child to fork
    sigterm,        \* child -> how many SIGTERM it was sent
    sigusr1,        \* child -> whether it was sent SIGUSR1
    exitSet,        \* self.exit.is_set()
    running,        \* run()'s local `running`
    shutdownCommenced, \* run()'s local `shutdown_commenced`
    lastTick,       \* history: what the last pass of run()'s loop did
    \* ---- the event log daemon's drain of etcd (daemons/eventlog.py)
    evKv,           \* the events under /sf/event
    evSpilled,      \* history: the events that were put there
    evWritten,      \* event -> how often it was written to its object's log
    epc,            \* where the drain is
    egroups,        \* `results`: the groups of entries it has still to do
    efaults,        \* how many writes and deletes have failed
    \* ---- a call of a public operation of etcd.py through its wrapper
    rop,            \* the operation called
    rstate,         \* where the call is
    rcount,         \* wrapper()'s local `count`
    rnext,          \* how many results the caller has taken from a generator
    storeDown,      \* whether etcd answers with internal server errors
    \* ---- a call of get_current_blob_transfers (etcd.py)
    bpc,            \* where the call is
    babsent,        \* its absent_nodes
    bjobs,          \* the jobs get_outstanding_jobs has yielded
    bstore,         \* history: the queue entries when it was called
    bresult,        \* what it returned: blob -> the nodes fetching it
    \* ---- calls of AgentOperation.add_result on one operation
    apc,            \* caller -> where its call is
    aarg,           \* caller -> the index and the value of its call
    aread,          \* caller -> its local `results`
    opResults,      \* the operation's stored results: index -> value
    resultsBefore,  \* history: the stored results before the calls
    \* ---- errors on the channels of a monitor (daemons/sidechannel.py)
    lastErr,        \* history: the last exception on a channel and its end
    heard,          \* history: channel -> the monitor has had a packet on it
    \* ---- reads of a thread through a ThreadLocalReadOnlyCache (etcd.py)
    gstore,         \* etcd: key -> the value stored, or none
    gobj,           \* the cache object: its state, self.prefixes, self.cache
    gscope,         \* history: the prefixes read since the scope was entered
    gsnap,          \* history: key -> its value when its prefix was read
    lastGet         \* history: what the last get() did

varsOp == <<opExists, opStatic, opState, lastWrite, lastNew>>

varsQ == <<kv, isNetNode, disp, qnames, dpc, dq, djob, ditem, rpc, rq, rlist,
           enq, resolved, handed, prior, lastOut, lastLen>>

varsL == <<locks, alive, lpc, lk, lstart, lwake, lexp, holderSeen, spc,
           slist, wasDead, removed>>

varsC == <<roCache, cobj, lastCache, db, cerr>>

varsS == <<monAlive, scOpen, scConnected, lastData, ready, agentState,
           bootTime, pollTasks, fileGet, opQueue, opError, lastPoll>>

varsP == <<lastRecv, realBoot, startTime, flo, statResult>>

varsM == <<supPc, vmRunning, monitors, childInst, childAlive, nextChild,
           sigterm, sigusr1, exitSet, running, shutdownCommenced, lastTick>>

varsE == <<evKv, evSpilled, evWritten, epc, egroups, efaults>>

\* The subsystems that stand apart from the ones above.
varsR == <<rop, rstate, rcount, rnext, storeDown>>

varsB == <<bpc, babsent, bjobs, bstore, bresult>>

varsA == <<apc, aarg, aread, opResults, resultsBefore>>

varsK == <<lastErr, heard>>

varsG == <<gstore, gobj, gscope, gsnap, lastGet>>

restEtc == <<varsE, varsR, varsB, varsA, varsG>>

varsEtc == <<restEtc, varsK>>

vars == <<varsOp, now, varsQ, varsL, varsC, varsS, varsP, varsM, varsEtc>>

\* What an action of one subsystem leaves alone.
othersOp == <<now, varsQ, varsL, varsC, varsS, varsP, varsM, varsEtc>>
restQ == <<varsOp, varsL, varsC, varsS, varsP, varsM, varsEtc>>
othersQ == <<restQ, lastLen>>
othersL == <<varsOp, varsQ, varsC, varsS, varsP, varsM, varsEtc>>
othersC == <<varsOp, now, varsQ, varsL, varsS, varsP, varsM, varsEtc>>
othersS == <<varsOp, varsQ, varsL, varsC, varsP, varsM, varsEtc>>
othersM == <<varsOp, varsQ, varsL, varsC, varsS, varsP, varsEtc>>
othersE == <<varsOp, varsQ, varsL, varsC, varsS, varsP, varsM, varsR, varsB,
            varsA, varsK,
            varsG>>
othersR == <<varsOp, varsQ, varsL, varsC, varsS, varsP, varsM, varsE, varsB,
            varsA, varsK,
            varsG>>
othersB == <<varsOp, varsQ, varsL, varsC, varsS, varsP, varsM, varsE, varsR,
            varsA, varsK,
            varsG>>
othersA == <<varsOp, varsQ, varsL, varsC, varsS, varsP, varsM, varsE, varsR,
            varsB, varsK,
            varsG>>
othersG == <<varsOp, varsQ, varsL, varsC, varsS, varsP, varsM, varsE, varsR,
            varsB, varsA, varsK>>

(***************************************************************************)
(*                        AGENT OPERATION OBJECTS                          *)
(***************************************************************************)

\* Bound: how many operation uuids there are.
MaxOps == 2

OpIds == 1..MaxOps

\* The state attribute before the first write (python's None).
NoState == "none"

STATE_INITIAL == "initial"
STATE_PREFLIGHT == "preflight"
STATE_QUEUED == "queued"
STATE_EXECUTING == "executing"
STATE_COMPLETE == "complete"
STATE_ERROR == "error"
STATE_DELETED == "deleted"
STATE_CREATED == "created"

\* The states AgentOperation declares transitions for.
OpStates ==
    {STATE_INITIAL, STATE_PREFLIGHT, STATE_QUEUED, STATE_EXECUTING,
     STATE_COMPLETE, STATE_ERROR, STATE_DELETED}

\* The values a caller may try to write: the declared states and 'created',
\* which ACTIVE_STATES names although the table has no entry for it.
WriteValues == OpStates \cup {STATE_CREATED}

\* A plausible slip in the table: 'complete' may also go to 'error'.
state_targets_complete_to_error(s) ==
    CASE s = NoState -> {STATE_INITIAL, STATE_ERROR}
      [] s = STATE_INITIAL ->
            {STATE_PREFLIGHT, STATE_QUEUED, STATE_DELETED, STATE_ERROR}
      [] s = STATE_PREFLIGHT -> {STATE_QUEUED, STATE_DELETED, STATE_ERROR}
      [] s = STATE_QUEUED -> {STATE_EXECUTING, STATE_DELETED, STATE_ERROR}
      [] s = STATE_EXECUTING -> {STATE_COMPLETE, STATE_DELETED, STATE_ERROR}
      [] s = STATE_COMPLETE -> {STATE_DELETED, STATE_ERROR}
      [] s = STATE_ERROR -> {STATE_DELETED}
      [] OTHER -> {}

\* AgentOperation.state_targets.  The entries of 'complete' and 'error' are
\* the bare string 'deleted' (a parenthesised string is no tuple), so python's
\* `in` is a substring test there: of the state names only 'deleted' passes
\* it.  The entry of 'deleted' is None, and `in None` raises: no write passes.
state_targets(s) ==
    CASE s = NoState -> {STATE_INITIAL, STATE_ERROR}
      [] s = STATE_INITIAL ->
            {STATE_PREFLIGHT, STATE_QUEUED, STATE_DELETED, STATE_ERROR}
      [] s = STATE_PREFLIGHT -> {STATE_QUEUED, STATE_DELETED, STATE_ERROR}
      [] s = STATE_QUEUED -> {STATE_EXECUTING, STATE_DELETED, STATE_ERROR}
      [] s = STATE_EXECUTING -> {STATE_COMPLETE, STATE_DELETED, STATE_ERROR}
      [] s = STATE_COMPLETE -> {STATE_DELETED}
      [] s = STATE_ERROR -> {STATE_DELETED}
      [] OTHER -> {}

\* The state setter of the object base (baseobject.py, not among the sources):
\* "every write validates against the static transition table and fails with
\* IllegalStateTransition otherwise".
StateWriteAllowed(from, to) == to \in state_targets(from)

\* The command lists an operation may be created with.
CMD_PUT_BLOB == "put-blob"
CMD_CHMOD == "chmod"
CMD_OTHER == "chown"

\* Blob uuids: one in the database with its file on this node, one in the
\* database without a local file, one that is not in the database.
BlobGood == "blob-good"
BlobNoFile == "blob-nofile"
BlobMissing == "blob-missing"

PutBlob(b) ==
    [command |-> CMD_PUT_BLOB, blob_uuid |-> b, path |-> "/p", mode |-> ""]
Chmod ==
    [command |-> CMD_CHMOD, blob_uuid |-> "", path |-> "/p", mode |-> "0755"]
Unknown ==
    [command |-> CMD_OTHER, blob_uuid |-> "", path |-> "/p", mode |-> ""]

CommandLists ==
    { <<PutBlob(BlobGood), Chmod>>,
      <<PutBlob(BlobMissing), Chmod>>,
      <<PutBlob(BlobNoFile), Chmod>>,
      <<Chmod, Unknown, Chmod>> }

NoWrite == [op |-> 0, from |-> NoState, to |-> NoState, ok |-> FALSE]
NoNew == [op |-> 0, commands |-> <<>>, n |-> 0]

IdleOp ==
    /\ opExists = [o \in OpIds |-> FALSE]
    /\ opStatic = [o \in OpIds |-> <<>>]
    /\ opState = [o \in OpIds |-> NoState]
    /\ lastWrite = NoWrite
    /\ lastNew = NoNew

\* obj.state = t, as an effect on the state attribute and the record of the
\* attempt.
WriteStateEffect(o, t) ==
    /\ lastWrite' = [op |-> o, from |-> opState[o], to |-> t,
                     ok |-> StateWriteAllowed(opState[o], t)]
    /\ opState' = IF StateWriteAllowed(opState[o], t)
                  THEN [opState EXCEPT ![o] = t]
                  ELSE opState

\* A slip: new() creates without looking for an existing operation.
OpNewOverwrite(o, cmds) ==
    /\ lastNew' = [op |-> o, commands |-> cmds, n |-> 1 - lastNew.n]
    /\ opExists' = [opExists EXCEPT ![o] = TRUE]
    /\ opStatic' = [opStatic EXCEPT ![o] = cmds]
    /\ WriteStateEffect(o, STATE_INITIAL)
    /\ UNCHANGED othersOp

\* AgentOperation.new: an existing operation is returned as it is; a new one
\* is created and its state set to 'initial'.
OpNew(o, cmds) ==
    /\ lastNew' = [op |-> o, commands |-> cmds, n |-> 1 - lastNew.n]
    /\ IF opExists[o]
       THEN UNCHANGED <<opExists, opStatic, opState, lastWrite>>
       ELSE /\ opExists' = [opExists EXCEPT ![o] = TRUE]
            /\ opStatic' = [opStatic EXCEPT ![o] = cmds]
            /\ WriteStateEffect(o, STATE_INITIAL)
    /\ UNCHANGED othersOp

\* Any caller writing obj.state = t.
OpWriteState(o, t) ==
    /\ opExists[o]
    /\ WriteStateEffect(o, t)
    /\ UNCHANGED <<opExists, opStatic, lastNew>>
    /\ UNCHANGED othersOp

\* AgentOperation.delete.
OpDelete(o) ==
    /\ opExists[o]
    /\ WriteStateEffect(o, STATE_DELETED)
    /\ UNCHANGED <<opExists, opStatic, lastNew>>
    /\ UNCHANGED othersOp


(***************************************************************************)
(*                     THE THREAD-LOCAL READ-ONLY CACHE                    *)
(***************************************************************************)

\* Threads: a dispatcher d and a process p of the sections below are the
\* thread of the same number.
Threads == {1, 2, 3}

\* Object types: a plain one and the events of it ('event/instance').
ObjTypes == {<<"instance">>, <<"event", "instance">>}
ObjNames == {"a"}
ObjData == {"v1", "v2"}
NoData == ""

\* The cache objects a thread builds.
CacheObjs == {1, 2}
NoCache == [st |-> "none", depth |-> 0]
NoCacheCall == [thread |-> 0, obj |-> 0, call |-> "", raised |-> FALSE,
                n |-> 0]

IdleC ==
    /\ roCache = [t \in Threads |-> FALSE]
    /\ cobj = [t \in Threads |-> [c \in CacheObjs |-> NoCache]]
    /\ lastCache = NoCacheCall
    /\ db = [k \in ObjTypes \X ObjNames |-> NoData]
    /\ cerr = FALSE

\* read_only_cache(): the thread's cache, if it has set one.
ReadOnlyCache(t) == roCache[t]

\* A call that raises ForbiddenWhileUsingReadOnlyCache: nothing is changed.
Forbidden(t) ==
    /\ ReadOnlyCache(t)
    /\ cerr' = TRUE
    /\ UNCHANGED <<roCache, cobj, lastCache, db, othersC>>

\* objecttype.startswith('event/')
IsEventType(objecttype) == Len(objecttype) > 1 /\ objecttype[1] = "event"

\* put: "Its ok to create events while using a read only cache".
PutForbidden(t, isEvent) == ReadOnlyCache(t) /\ ~isEvent

\* A thread opens and closes caches between its calls, not inside one.
BetweenCalls(t) ==
    /\ dpc[t] \in {"idle", "none", "work"}
    /\ lpc[t] \in {"idle", "built", "cs"}
    /\ spc = "off"

\* How deep the scopes of the caches that thread t has entered are nested.
CacheDepth(t) ==
    IF \E c \in CacheObjs : cobj[t][c].depth = 2 THEN 2
    ELSE IF \E c \in CacheObjs : cobj[t][c].depth = 1 THEN 1
    ELSE 0

CacheCall(t, c, call, raised) ==
    [thread |-> t, obj |-> c, call |-> call, raised |-> raised,
     n |-> 1 - lastCache.n]

\* ThreadLocalReadOnlyCache.__init__: `if read_only_cache(): raise
\* PreExistingReadOnlyCache`.
CacheNewRaises(t) == ReadOnlyCache(t)

\* ThreadLocalReadOnlyCache(): the constructor raises or builds the object.
CacheNew(t, c) ==
    /\ BetweenCalls(t)
    /\ cobj[t][c].st = "none"
    /\ lastCache' = CacheCall(t, c, "new", CacheNewRaises(t))
    /\ cobj' = IF CacheNewRaises(t) THEN cobj
               ELSE [cobj EXCEPT ![t][c] = [st |-> "built", depth |-> 0]]
    /\ cerr' = FALSE
    /\ UNCHANGED <<roCache, db, othersC>>

\* ThreadLocalReadOnlyCache.__enter__ of an object that was built: it becomes
\* the thread's cache.
CacheEnter(t, c) ==
    /\ BetweenCalls(t)
    /\ cobj[t][c].st = "built"
    /\ lastCache' = CacheCall(t, c, "enter", FALSE)
    /\ cobj' = [cobj EXCEPT ![t][c] =
                   [st |-> "entered", depth |-> CacheDepth(t) + 1]]
    /\ roCache' = [roCache EXCEPT ![t] = TRUE]
    /\ cerr' = FALSE
    /\ UNCHANGED <<db, othersC>>

\* ThreadLocalReadOnlyCache.__exit__ of the object whose scope is the
\* innermost: the thread has no cache any more.
CacheExit(t, c) ==
    /\ BetweenCalls(t)
    /\ cobj[t][c].st = "entered"
    /\ cobj[t][c].depth = CacheDepth(t)
    /\ lastCache' = CacheCall(t, c, "exit", FALSE)
    /\ cobj' = [cobj EXCEPT ![t][c] = NoCache]
    /\ roCache' = [roCache EXCEPT ![t] = FALSE]
    /\ cerr' = FALSE
    /\ UNCHANGED <<db, othersC>>

\* put(objecttype, None, name, data).
ObjPut(t, objecttype, name, data) ==
    IF PutForbidden(t, IsEventType(objecttype))
    THEN Forbidden(t)
    ELSE /\ db' = [db EXCEPT ![<<objecttype, name>>] = data]
         /\ cerr' = FALSE
         /\ UNCHANGED <<roCache, cobj, lastCache, othersC>>

\* create(objecttype, None, name, data): written if the key does not exist.
ObjCreate(t, objecttype, name, data) ==
    IF ReadOnlyCache(t)
    THEN Forbidden(t)
    ELSE /\ db' = [db EXCEPT ![<<objecttype, name>>] =
                      IF @ = NoData THEN data ELSE @]
         /\ UNCHANGED <<roCache, cobj, lastCache, cerr, othersC>>

\* delete(objecttype, None, name).
ObjDelete(t, objecttype, name) ==
    IF ReadOnlyCache(t)
    THEN Forbidden(t)
    ELSE /\ db' = [db EXCEPT ![<<objecttype, name>>] = NoData]
         /\ UNCHANGED <<roCache, cobj, lastCache, cerr, othersC>>

\* delete_all(objecttype, None): everything under '/sf/<objecttype>/'.
ObjDeleteAll(t, objecttype) ==
    IF ReadOnlyCache(t)
    THEN Forbidden(t)
    ELSE /\ db' = [k \in ObjTypes \X ObjNames |->
                      IF k[1] = objecttype THEN NoData ELSE db[k]]
         /\ UNCHANGED <<roCache, cobj, lastCache, cerr, othersC>>

(***************************************************************************)
(*                          QUEUES IN ETCD                                 *)
(***************************************************************************)

\* Bounds: the clock's range, the delay of a deferred enqueue and how many
\* workitems are ever enqueued.
MaxTime == 1
DelayD == 1
MaxJobs == 2

Times == 0..MaxTime
Rands == 1..MaxJobs

\* config.NODE_NAME of the daemon that restarts, another node whose name has
\* it as a prefix, and the queue of the network node.
LocalNode == "node1"
OtherNode == "node10"
NetworkNode == "networknode"
QNames == {LocalNode, OtherNode, NetworkNode}

Dispatchers == {1, 2}

\* Workitems as stored (JSON): a task list; a task is a dict with its 'task'
\* name.  "fetch_blob" is the name of a registered QueueTask subclass
\* (FetchBlobTask), "mystery" is not registered.
JsonTask(name, b) == [kind |-> "json", task |-> name, blob |-> b]
Items ==
    { <<JsonTask("fetch_blob", 1)>>,
      <<JsonTask("mystery", 0), JsonTask("fetch_blob", 2)>> }

\* _find_class: a dict whose 'task' names a QueueTask subclass becomes an
\* instance of that class, anything else stays as it is.
FindClass(t) ==
    IF t.kind = "json" /\ t.task = "fetch_blob"
    THEN [kind |-> "FetchBlobTask", task |-> "", blob |-> t.blob]
    ELSE t

\* json.loads(data, object_hook=decodeTasks) of a stored workitem.
DecodeTasks(item) == [i \in 1..Len(item) |-> FindClass(item[i])]

\* JSONEncoderCustomTypes: a QueueTask is written as its obj_dict(), which
\* (tasks.py, not among the sources) is the dict it was decoded from.
EncodeTask(t) ==
    IF t.kind = "FetchBlobTask"
    THEN [kind |-> "json", task |-> "fetch_blob", blob |-> t.blob]
    ELSE t

EncodeItem(item) == [i \in 1..Len(item) |-> EncodeTask(item[i])]

\* a.startswith(b) for the path segments of the model.
StrPrefix(b, a) ==
    \/ a = b
    \/ <<b, a>> \in {<<"node1", "node10">>, <<"queue", "queued">>}

\* A slip: the key of a subtype built without the trailing slash.
ConstructKeyNoSlash(objecttype, subtype, name) ==
    [type |-> objecttype, sub |-> subtype, name |-> name, dir |-> FALSE]

\* _construct_key: '/sf/<type>/<subtype>/<name>', or with no name the
\* directory '/sf/<type>/<subtype>/'.  <<>> is no name (None).
ConstructKey(objecttype, subtype, name) ==
    [type |-> objecttype, sub |-> subtype, name |-> name, dir |-> name = <<>>]

\* Whether the key of entry e starts with the path p (get_prefix(p)).
\* With the trailing slash the queue name has to be equal; without it the
\* queue name need only start with the subtype.
UnderPrefix(p, e) ==
    /\ e.phase = p.type
    /\ IF p.dir THEN e.q = p.sub ELSE StrPrefix(p.sub, e.q)
    /\ p.name = <<>>

\* The order of etcd keys '<time>-<rand>' under one queue: by time, then by
\* the random part (the times of the model are written with equally many
\* digits, for which the order of the strings is the order of the numbers).
KeyLess(j1, j2) == j1[1] < j2[1] \/ (j1[1] = j2[1] /\ j1[2] < j2[2])

\* client.get_prefix(path): the entries under path.
GetPrefix(store, p) == {e \in store : UnderPrefix(p, e)}

\* A slip: the read sorts in descending order.
GetPrefixLast(store, p) ==
    {e \in GetPrefix(store, p) :
        \A f \in GetPrefix(store, p) : f = e \/ KeyLess(f.job, e.job)}

\* client.get_prefix(path, sort_order='ascend', limit=1): the entry with the
\* smallest key, as a set of at most one entry.
GetPrefixFirst(store, p) ==
    {e \in GetPrefix(store, p) :
        \A f \in GetPrefix(store, p) : f = e \/ KeyLess(e.job, f.job)}

\* client.put(path, value) and client.delete(path) for a queue entry.
Entry(phase, q, job, item) ==
    [phase |-> phase, q |-> q, job |-> job, item |-> item]

KvPut(store, phase, q, job, item) ==
    {e \in store : ~(e.phase = phase /\ e.q = q /\ e.job = job)}
        \cup {Entry(phase, q, job, item)}

KvDelete(store, phase, q, job) ==
    {e \in store : ~(e.phase = phase /\ e.q = q /\ e.job = job)}

\* The entries of a set as a sequence in key order.
RECURSIVE SortedEntries(_)
SortedEntries(S) ==
    IF S = {} THEN <<>>
    ELSE LET m == CHOOSE e \in S :
                     \A f \in S : f = e \/ KeyLess(e.job, f.job)
                         \/ (e.job = f.job /\ e.q = f.q)
         IN <<m>> \o SortedEntries(S \ {m})

NoJob == <<0, 0>>
NoItem == <<>>
NoEnq == [q |-> "", delay |-> 0, due |-> 0, item |-> NoItem]
NoOut == [q |-> "", t |-> -1, prev |-> -1]
NoLen == [q |-> "", processing |-> 0, queued |-> 0, deferred |-> 0, n |-> 0]

IdleQ ==
    /\ kv = {}
    /\ isNetNode = FALSE
    /\ disp = {}
    /\ qnames = {}
    /\ dpc = [d \in Dispatchers |-> "idle"]
    /\ dq = [d \in Dispatchers |-> LocalNode]
    /\ djob = [d \in Dispatchers |-> NoJob]
    /\ ditem = [d \in Dispatchers |-> NoItem]
    /\ rpc = "off"
    /\ rq = LocalNode
    /\ rlist = <<>>
    /\ enq = [r \in Rands |-> NoEnq]
    /\ resolved = {}
    /\ handed = [r \in Rands |-> 0]
    /\ prior = {}
    /\ lastOut = [d \in Dispatchers |-> NoOut]
    /\ lastLen = NoLen

\* The state a daemon with the dispatchers D starts in.
InitQ(D, names, netnode) ==
    /\ kv = {}
    /\ isNetNode = netnode
    /\ disp = D
    /\ qnames = names
    /\ dpc = [d \in Dispatchers |-> "idle"]
    /\ dq = [d \in Dispatchers |-> LocalNode]
    /\ djob = [d \in Dispatchers |-> NoJob]
    /\ ditem = [d \in Dispatchers |-> NoItem]
    /\ rpc = "off"
    /\ rq = LocalNode
    /\ rlist = <<>>
    /\ enq = [r \in Rands |-> NoEnq]
    /\ resolved = {}
    /\ handed = [r \in Rands |-> 0]
    /\ prior = {}
    /\ lastOut = [d \in Dispatchers |-> NoOut]
    /\ lastLen = NoLen

dvars == <<dpc, dq, djob, ditem>>
rvars == <<rpc, rq, rlist>>
hist == <<enq, resolved, handed, prior, lastOut>>

\* time.time() moves on.
Tick ==
    /\ now < MaxTime
    /\ now' = now + 1
    /\ UNCHANGED <<varsOp, varsQ, varsL, varsC, varsS, varsP, varsM, varsEtc>>

\* enqueue(queuename, workitem, delay): the jobname is the entry time and a
\* random id (one that no earlier enqueue drew).
Enqueue(t, q, w, delay, r) ==
    /\ q \in qnames
    /\ enq[r] = NoEnq
    /\ now + delay <= MaxTime
    /\ IF PutForbidden(t, FALSE)
       THEN Forbidden(t)
       ELSE /\ kv' = KvPut(kv, "queue", q, <<now + delay, r>>, w)
            /\ enq' = [enq EXCEPT ![r] =
                          [q |-> q, delay |-> delay, due |-> now + delay,
                           item |-> w]]
            /\ lastOut' = [d \in Dispatchers |-> NoOut]
            /\ UNCHANGED <<isNetNode, disp, qnames, dvars, rvars, resolved,
                           handed, prior, now, othersQ>>

\* A dispatcher calls dequeue(queuename).  No dispatcher runs while the
\* daemon is down or restart_queues() is under way.
DequeueCall(d, q) ==
    /\ d \in disp
    /\ q \in qnames
    /\ rpc = "off"
    /\ dpc[d] \in {"idle", "none"}
    /\ IF ReadOnlyCache(d)
       THEN Forbidden(d)
       ELSE /\ dpc' = [dpc EXCEPT ![d] = "read"]
            /\ dq' = [dq EXCEPT ![d] = q]
            /\ UNCHANGED <<kv, isNetNode, disp, qnames, djob, ditem, rvars,
                           hist, now, othersQ>>

\* A slip: the test for a task in the future left out.
InFutureNever(job, t) == FALSE

\* dequeue: "Ensure that this task isn't in the future".
InFuture(job, t) == job[1] > t

\* dequeue: the first key of the queue is read; with no key, or with a first
\* key in the future, (None, None) is returned ("none").
DequeueRead(d) ==
    /\ dpc[d] = "read"
    /\ LET first == GetPrefixFirst(kv, ConstructKey("queue", dq[d], <<>>))
       IN IF first = {} \/ (\E e \in first : InFuture(e.job, now))
          THEN /\ dpc' = [dpc EXCEPT ![d] = "none"]
               /\ djob' = [djob EXCEPT ![d] = NoJob]
               /\ ditem' = [ditem EXCEPT ![d] = NoItem]
               /\ UNCHANGED dq
          ELSE /\ \E e \in first :
                     /\ djob' = [djob EXCEPT ![d] = e.job]
                     /\ ditem' = [ditem EXCEPT ![d] = DecodeTasks(e.item)]
               /\ dpc' = [dpc EXCEPT ![d] = "put"]
               /\ UNCHANGED dq
    /\ UNCHANGED <<kv, isNetNode, disp, qnames, rvars, hist, now, othersQ>>

\* A slip: the entry is not copied to processing before it is deleted from
\* the queue.
DequeuePutSkipped(d) ==
    /\ dpc[d] = "put"
    /\ dpc' = [dpc EXCEPT ![d] = "delete"]
    /\ UNCHANGED <<kv, isNetNode, disp, qnames, dq, djob, ditem, rvars, hist,
                   now, othersQ>>

\* dequeue: put('processing', queuename, jobname, workitem).
DequeuePut(d) ==
    /\ dpc[d] = "put"
    /\ kv' = KvPut(kv, "processing", dq[d], djob[d], EncodeItem(ditem[d]))
    /\ dpc' = [dpc EXCEPT ![d] = "delete"]
    /\ UNCHANGED <<isNetNode, disp, qnames, dq, djob, ditem, rvars, hist, now,
                   othersQ>>

\* dequeue: client.delete(key) and the return of (jobname, workitem), which
\* the dispatcher holds while it works on the job.
DequeueDelete(d) ==
    /\ dpc[d] = "delete"
    /\ kv' = KvDelete(kv, "queue", dq[d], djob[d])
    /\ dpc' = [dpc EXCEPT ![d] = "work"]
    /\ handed' = [handed EXCEPT ![djob[d][2]] = @ + 1]
    /\ lastOut' = [lastOut EXCEPT ![d] =
                       [q |-> dq[d], t |-> djob[d][1],
                        prev |-> IF @.q = dq[d] THEN @.t ELSE -1]]
    /\ UNCHANGED <<isNetNode, disp, qnames, dq, djob, ditem, rvars, enq, resolved,
                   prior, now, othersQ>>

\* retry_etcd_forever around dequeue: client.delete raised an internal server
\* error and the whole function runs again.
DequeueRetry(d) ==
    /\ dpc[d] = "delete"
    /\ dpc' = [dpc EXCEPT ![d] = "read"]
    /\ djob' = [djob EXCEPT ![d] = NoJob]
    /\ ditem' = [ditem EXCEPT ![d] = NoItem]
    /\ UNCHANGED <<kv, isNetNode, disp, qnames, dq, rvars, hist, now, othersQ>>

\* resolve(queuename, jobname) by the dispatcher that was handed the job.
Resolve(d) ==
    /\ dpc[d] = "work"
    /\ IF ReadOnlyCache(d)
       THEN Forbidden(d)
       ELSE /\ kv' = KvDelete(kv, "processing", dq[d], djob[d])
            /\ resolved' = resolved \cup {djob[d][2]}
            /\ dpc' = [dpc EXCEPT ![d] = "idle"]
            /\ dq' = [dq EXCEPT ![d] = LocalNode]
            /\ djob' = [djob EXCEPT ![d] = NoJob]
            /\ ditem' = [ditem EXCEPT ![d] = NoItem]
            /\ UNCHANGED <<isNetNode, disp, qnames, rvars, enq, handed, prior,
                           lastOut, now, othersQ>>

\* get_queue_length(queuename) by a thread that uses no read-only cache:
\* get_all('queue', queuename) and get_all('processing', queuename) read the
\* prefixes '/sf/queue/<queuename>/' and '/sf/processing/<queuename>/'; a
\* queue entry whose time is in the future counts as deferred.
GetQueueLength(t, q) ==
    /\ q \in qnames
    /\ ~ReadOnlyCache(t)
    /\ LET queue == GetPrefix(kv, ConstructKey("queue", q, <<>>))
           proc == GetPrefix(kv, ConstructKey("processing", q, <<>>))
       IN lastLen' =
              [q |-> q,
               processing |-> Cardinality(proc),
               queued |-> Cardinality({e \in queue : ~InFuture(e.job, now)}),
               deferred |-> Cardinality({e \in queue : InFuture(e.job, now)}),
               n |-> 1 - lastLen.n]
    /\ UNCHANGED <<kv, isNetNode, disp, qnames, dvars, rvars, hist, now,
                   restQ>>

\* The daemon dies: its dispatchers are gone with what they held, and a
\* restart_queues() that was under way is abandoned.  The daemon then boots.
Crash ==
    /\ dpc' = [d \in Dispatchers |-> "idle"]
    /\ dq' = [d \in Dispatchers |-> LocalNode]
    /\ djob' = [d \in Dispatchers |-> NoJob]
    /\ ditem' = [d \in Dispatchers |-> NoItem]
    /\ prior' = prior \cup {r \in Rands : handed[r] > 0}
    /\ lastOut' = [d \in Dispatchers |-> NoOut]
    /\ rpc' = "boot"
    /\ rq' = LocalNode
    /\ rlist' = <<>>
    /\ UNCHANGED <<kv, isNetNode, disp, qnames, enq, resolved, handed, now, othersQ>>

\* A slip: the network node's queue is restarted on every node.
RestartQueueNamesAlways(netnode) == <<NetworkNode, LocalNode>>

\* restart_queues: the queues _restart_queue is called for, in order.
RestartQueueNames(netnode) ==
    IF netnode THEN <<NetworkNode, LocalNode>> ELSE <<LocalNode>>

\* _restart_queue(queuename): get_prefix reads the processing entries.
RestartRead ==
    /\ rpc \in {"boot", "next"}
    /\ LET names == RestartQueueNames(isNetNode)
           q == IF rpc = "boot" THEN names[1] ELSE names[Len(names)]
       IN /\ rq' = q
          /\ rlist' = SortedEntries(
                          GetPrefix(kv, ConstructKey("processing", q, <<>>)))
    /\ rpc' = "put"
    /\ UNCHANGED <<kv, isNetNode, disp, qnames, dvars, hist, now, othersQ>>

\* A slip: the entry is not written back to the queue before its processing
\* copy is deleted.
RestartPutSkipped ==
    /\ rpc = "put"
    /\ rlist # <<>>
    /\ rpc' = "delete"
    /\ UNCHANGED <<kv, isNetNode, disp, qnames, dvars, rq, rlist, hist, now,
                   othersQ>>

\* _restart_queue: put('queue', queuename, jobname, workitem) for the entry
\* the loop is at.
RestartPut ==
    /\ rpc = "put"
    /\ rlist # <<>>
    /\ kv' = KvPut(kv, "queue", rq, Head(rlist).job, Head(rlist).item)
    /\ rpc' = "delete"
    /\ lastOut' = [d \in Dispatchers |-> NoOut]
    /\ UNCHANGED <<isNetNode, disp, qnames, dvars, rq, rlist, enq, resolved,
                   handed, prior, now, othersQ>>

\* _restart_queue: delete('processing', queuename, jobname).
RestartDelete ==
    /\ rpc = "delete"
    /\ kv' = KvDelete(kv, "processing", rq, Head(rlist).job)
    /\ rlist' = Tail(rlist)
    /\ rpc' = "put"
    /\ UNCHANGED <<isNetNode, disp, qnames, dvars, rq, hist, now, othersQ>>

\* _restart_queue returns; restart_queues goes on to the next queue or
\* returns, after which the dispatchers run.
RestartReturn ==
    /\ rpc = "put"
    /\ rlist = <<>>
    /\ LET names == RestartQueueNames(isNetNode)
       IN IF rq = names[Len(names)]
          THEN /\ rpc' = "off"
               /\ rq' = LocalNode
               /\ handed' = [r \in Rands |-> 0]
          ELSE /\ rpc' = "next"
               /\ UNCHANGED <<rq, handed>>
    /\ UNCHANGED <<kv, isNetNode, disp, qnames, dvars, rlist, enq, resolved,
                   prior, lastOut, now, othersQ>>

NextQ ==
    \/ Tick
    \/ \E t \in Dispatchers, q \in QNames, w \in Items, delay \in {0, DelayD},
             r \in Rands :
          Enqueue(t, q, w, delay, r)
    \/ \E d \in Dispatchers, q \in QNames : DequeueCall(d, q)
    \/ \E d \in Dispatchers : DequeueRead(d)
    \/ \E d \in Dispatchers : DequeuePut(d)
    \/ \E d \in Dispatchers : DequeueDelete(d)
    \/ \E d \in Dispatchers : DequeueRetry(d)
    \/ \E d \in Dispatchers : Resolve(d)
    \/ Crash
    \/ RestartRead
    \/ RestartPut
    \/ RestartDelete
    \/ RestartReturn

\* The queues of three nodes with one dispatcher, crashes of the local
\* node's daemon and its restart_queues().
NextRestart ==
    \/ \E q \in QNames, w \in Items, r \in Rands : Enqueue(1, q, w, 0, r)
    \/ \E q \in QNames : DequeueCall(1, q)
    \/ DequeueRead(1)
    \/ DequeuePut(1)
    \/ DequeueDelete(1)
    \/ Resolve(1)
    \/ Crash
    \/ RestartRead
    \/ RestartPut
    \/ RestartDelete
    \/ RestartReturn

\* The queues of three nodes, two of which have names of which one starts
\* with the other: enqueues now and deferred, a dispatcher that takes jobs
\* and holds them, the lengths of the queues, crashes and restart_queues().
NextIsolation ==
    \/ Tick
    \/ \E q \in QNames, delay \in {0, DelayD}, r \in Rands :
          Enqueue(1, q, <<JsonTask("fetch_blob", 1)>>, delay, r)
    \/ \E q \in QNames : GetQueueLength(1, q)
    \/ \E q \in QNames : DequeueCall(1, q)
    \/ DequeueRead(1)
    \/ DequeuePut(1)
    \/ DequeueDelete(1)
    \/ Crash
    \/ RestartRead
    \/ RestartPut
    \/ RestartDelete
    \/ RestartReturn

(***************************************************************************)
(*                           LOCKS IN ETCD                                 *)
(***************************************************************************)

\* Bounds: the clock's range, the timeout of an acquisition and the ttl of a
\* lease (both in seconds; the code's defaults are larger).
MaxLockTime == 3
LockTimeout == 2
LockTtl == 2

\* Processes 1 and 2 run on the local node, process 3 on another node, where
\* it has the pid that process 1 has here.
Procs == {1, 2, 3}
ProcNode(p) == IF p = 3 THEN OtherNode ELSE LocalNode
ProcPid(p) == IF p = 2 THEN 202 ELSE 101

LockKeys == {"lock-a", "lock-b"}

\* The value of a lock key: json.dumps({node, pid, operation}) of its holder.
NoHolder == [node |-> "", pid |-> 0]
HolderValue(p) == [node |-> ProcNode(p), pid |-> ProcPid(p)]

\* psutil.pid_exists(pid) on the local node.
PidExists(pid) ==
    \E p \in Procs : ProcNode(p) = LocalNode /\ ProcPid(p) = pid /\ alive[p]

IdleL ==
    /\ locks = [k \in LockKeys |-> NoHolder]
    /\ alive = [p \in Procs |-> TRUE]
    /\ lpc = [p \in Procs |-> "idle"]
    /\ lk = [p \in Procs |-> "lock-a"]
    /\ lstart = [p \in Procs |-> 0]
    /\ lwake = [p \in Procs |-> 0]
    /\ lexp = [p \in Procs |-> 0]
    /\ holderSeen = [p \in Procs |-> NoHolder]
    /\ spc = "off"
    /\ slist = <<>>
    /\ wasDead = {}
    /\ removed = {}

pvars == <<lpc, lk, lstart, lwake, lexp, holderSeen>>
svars == <<spc, slist, wasDead, removed>>

TickL ==
    /\ now < MaxLockTime
    /\ now' = now + 1
    /\ UNCHANGED <<varsOp, varsQ, varsL, varsC, varsS, varsP, varsM, varsEtc>>

\* Lock.acquire() of the etcd client (a library): a lease of ttl seconds is
\* created and the key is written under it if the key does not exist, in one
\* transaction.  Whether it succeeds:
AcquireSucceeds(k) == locks[k] = NoHolder

\* get_lock(...): ActualLock.__init__ builds the lock object, which is not
\* locked yet.
GetLock(p, k) ==
    /\ alive[p]
    /\ lpc[p] = "idle"
    /\ IF ReadOnlyCache(p)
       THEN Forbidden(p)
       ELSE /\ lpc' = [lpc EXCEPT ![p] = "built"]
            /\ lk' = [lk EXCEPT ![p] = k]
            /\ UNCHANGED <<locks, alive, lstart, lwake, lexp, holderSeen,
                           svars, now, othersL>>

\* `with lock`: __enter__ starts, start_time = time.time().
LockEnter(p) ==
    /\ alive[p]
    /\ lpc[p] = "built"
    /\ lpc' = [lpc EXCEPT ![p] = "loop"]
    /\ lstart' = [lstart EXCEPT ![p] = now]
    /\ cerr' = IF ReadOnlyCache(p) THEN FALSE ELSE cerr
    /\ UNCHANGED <<locks, alive, lk, lwake, lexp, holderSeen, svars, now,
                   varsOp, varsQ, roCache, cobj, lastCache, db,
                   varsS, varsP, varsM, varsEtc>>

\* A slip: __enter__ returns whatever acquire() said.
EnterOutcomeAlways(res) == "cs"

\* __enter__: `if res: return self`, otherwise time.sleep(1).
EnterOutcome(res) == IF res THEN "cs" ELSE "sleep"

\* __enter__: one turn of `while time.time() - start_time < self.timeout`.
LockTry(p) ==
    /\ alive[p]
    /\ lpc[p] = "loop"
    /\ now - lstart[p] < LockTimeout
    /\ LET res == AcquireSucceeds(lk[p])
       IN /\ lpc' = [lpc EXCEPT ![p] = EnterOutcome(res)]
          /\ IF res
             THEN /\ locks' = [locks EXCEPT ![lk[p]] = HolderValue(p)]
                  /\ lexp' = [lexp EXCEPT ![p] = now + LockTtl]
             ELSE UNCHANGED <<locks, lexp>>
          /\ lwake' = [lwake EXCEPT ![p] = IF res THEN @ ELSE now + 1]
    /\ UNCHANGED <<alive, lk, lstart, holderSeen, svars, now, othersL>>

\* __enter__: time.sleep(1) is over.
LockWake(p) ==
    /\ alive[p]
    /\ lpc[p] = "sleep"
    /\ now >= lwake[p]
    /\ lpc' = [lpc EXCEPT ![p] = "loop"]
    /\ UNCHANGED <<locks, alive, lk, lstart, lwake, lexp, holderSeen, svars,
                   now, othersL>>

\* get_holder: the (node, pid) written in the key, or nothing when the key
\* is not there.
GetHolder(k) == locks[k]

\* __enter__: the loop ended without the lock; get_holder() is read for the
\* log and LockException is raised.
LockGiveUp(p) ==
    /\ alive[p]
    /\ lpc[p] = "loop"
    /\ now - lstart[p] >= LockTimeout
    /\ holderSeen' = [holderSeen EXCEPT ![p] = GetHolder(lk[p])]
    /\ lpc' = [lpc EXCEPT ![p] = "failed"]
    /\ UNCHANGED <<locks, alive, lk, lstart, lwake, lexp, svars, now,
                   othersL>>

\* The caller has seen the LockException and may try again.
LockFailedReturn(p) ==
    /\ alive[p]
    /\ lpc[p] = "failed"
    /\ lpc' = [lpc EXCEPT ![p] = "idle"]
    /\ holderSeen' = [holderSeen EXCEPT ![p] = NoHolder]
    /\ lk' = [lk EXCEPT ![p] = "lock-a"]
    /\ lstart' = [lstart EXCEPT ![p] = 0]
    /\ lwake' = [lwake EXCEPT ![p] = 0]
    /\ UNCHANGED <<locks, alive, lexp, svars, now, othersL>>

\* A slip: release() deletes the key whatever its value is.
ReleaseSucceedsAny(p) == locks[lk[p]] # NoHolder

\* Lock.release() of the etcd client: the key is deleted if its value is
\* this lock's; whether it is:
ReleaseSucceeds(p) == locks[lk[p]] = HolderValue(p)

\* __exit__: release(); a release that fails raises LockException
\* ("relfailed").
LockExit(p) ==
    /\ alive[p]
    /\ lpc[p] = "cs"
    /\ IF ReleaseSucceeds(p)
       THEN /\ locks' = [locks EXCEPT ![lk[p]] = NoHolder]
            /\ lpc' = [lpc EXCEPT ![p] = "idle"]
       ELSE /\ UNCHANGED locks
            /\ lpc' = [lpc EXCEPT ![p] = "relfailed"]
    /\ lk' = [lk EXCEPT ![p] = IF ReleaseSucceeds(p) THEN "lock-a" ELSE @]
    /\ lexp' = [lexp EXCEPT ![p] = 0]
    /\ lstart' = [lstart EXCEPT ![p] = 0]
    /\ lwake' = [lwake EXCEPT ![p] = 0]
    /\ UNCHANGED <<alive, holderSeen, svars, now, othersL>>

\* refresh_lock: a lock that is no longer acquired raises LockException
\* inside the `with` block; otherwise the lease starts again.
LockRefresh(p) ==
    /\ alive[p]
    /\ lpc[p] = "cs"
    /\ IF ReadOnlyCache(p)
       THEN Forbidden(p)
       ELSE /\ lexp' = [lexp EXCEPT ![p] = IF ReleaseSucceeds(p)
                                            THEN now + LockTtl ELSE @]
            /\ UNCHANGED <<locks, alive, lpc, lk, lstart, lwake, holderSeen,
                           svars, now, othersL>>

\* The caller has seen the LockException of __exit__.
LockExitFailedReturn(p) ==
    /\ alive[p]
    /\ lpc[p] = "relfailed"
    /\ lpc' = [lpc EXCEPT ![p] = "idle"]
    /\ lk' = [lk EXCEPT ![p] = "lock-a"]
    /\ UNCHANGED <<locks, alive, lstart, lwake, lexp, holderSeen, svars,
                   now, othersL>>

\* etcd: the lease of p's key has run out and the key is removed.
LeaseExpire(p) ==
    /\ locks[lk[p]] = HolderValue(p)
    /\ lexp[p] > 0
    /\ now >= lexp[p]
    /\ locks' = [locks EXCEPT ![lk[p]] = NoHolder]
    /\ lexp' = [lexp EXCEPT ![p] = 0]
    /\ UNCHANGED <<alive, lpc, lk, lstart, lwake, holderSeen, svars, now,
                   othersL>>

\* A process dies; what it wrote stays.
Die(p) ==
    /\ alive[p]
    /\ alive' = [alive EXCEPT ![p] = FALSE]
    /\ lpc' = [lpc EXCEPT ![p] = "dead"]
    /\ lstart' = [lstart EXCEPT ![p] = 0]
    /\ lwake' = [lwake EXCEPT ![p] = 0]
    /\ holderSeen' = [holderSeen EXCEPT ![p] = NoHolder]
    /\ lk' = [lk EXCEPT ![p] = IF locks[@] = HolderValue(p) THEN @
                                ELSE "lock-a"]
    /\ lexp' = [lexp EXCEPT ![p] = IF locks[lk[p]] = HolderValue(p) THEN @
                                    ELSE 0]
    /\ UNCHANGED <<locks, svars, now, othersL>>

\* The lock keys in ascending order.
LockKeySeq == <<"lock-a", "lock-b">>

\* The (key, holder) pairs under /sflocks/ in key order.
RECURSIVE LockList(_, _)
LockList(store, i) ==
    IF i > Len(LockKeySeq) THEN <<>>
    ELSE (IF store[LockKeySeq[i]] = NoHolder THEN <<>>
          ELSE <<[key |-> LockKeySeq[i], holder |-> store[LockKeySeq[i]]]>>)
         \o LockList(store, i + 1)

\* clear_stale_locks called by thread t of the local node: get_prefix reads
\* all locks.
ClearStaleStart(t) ==
    /\ spc = "off"
    /\ IF ReadOnlyCache(t)
       THEN Forbidden(t)
       ELSE /\ spc' = "scan"
            /\ slist' = LockList(locks, 1)
            /\ wasDead' = {p \in Procs : ~alive[p]}
            /\ removed' = {}
            /\ UNCHANGED <<locks, alive, pvars, now, othersL>>

\* A slip: the holder's node is not compared with this node's name.
IsStaleAnyNode(holder) == ~PidExists(holder.pid)

\* A slip: the holder's node is compared with another node's name.
IsStaleOtherNode(holder) == holder.node = OtherNode /\ ~PidExists(holder.pid)

\* clear_stale_locks: `node == config.NODE_NAME and not psutil.pid_exists(pid)`.
IsStale(holder) == holder.node = LocalNode /\ ~PidExists(holder.pid)

\* clear_stale_locks: one turn of the loop over what was read; a stale
\* lock's key is deleted.
ClearStaleStep ==
    /\ spc = "scan"
    /\ slist # <<>>
    /\ locks' = IF IsStale(Head(slist).holder)
                THEN [locks EXCEPT ![Head(slist).key] = NoHolder]
                ELSE locks
    /\ removed' = IF IsStale(Head(slist).holder)
                     /\ locks[Head(slist).key] # NoHolder
                  THEN removed \cup {[key |-> Head(slist).key,
                                      holder |-> locks[Head(slist).key]]}
                  ELSE removed
    /\ slist' = Tail(slist)
    /\ UNCHANGED <<alive, pvars, spc, wasDead, now, othersL>>

\* clear_stale_locks returns.
ClearStaleReturn ==
    /\ spc = "scan"
    /\ slist = <<>>
    /\ spc' = "off"
    /\ wasDead' = {}
    /\ removed' = {}
    /\ UNCHANGED <<locks, alive, pvars, slist, now, othersL>>

\* Two processes on one node take and release locks.
NextL ==
    \/ TickL
    \/ \E p \in {1, 2}, k \in LockKeys : GetLock(p, k)
    \/ \E p \in {1, 2} : LockEnter(p)
    \/ \E p \in {1, 2} : LockTry(p)
    \/ \E p \in {1, 2} : LockWake(p)
    \/ \E p \in {1, 2} : LockGiveUp(p)
    \/ \E p \in {1, 2} : LockFailedReturn(p)
    \/ \E p \in {1, 2} : LockExit(p)
    \/ \E p \in {1, 2} : LockRefresh(p)
    \/ \E p \in {1, 2} : LockExitFailedReturn(p)
    \/ \E p \in {1, 2} : LeaseExpire(p)
    \/ \E p \in {1, 2} : Die(p)

\* A process of the local node and one of another node take and release
\* locks while a daemon of the local node clears stale locks.
NextStale ==
    \/ TickL
    \/ \E p \in {1, 3}, k \in LockKeys : GetLock(p, k)
    \/ \E p \in {1, 3} : LockEnter(p)
    \/ \E p \in {1, 3} : LockTry(p)
    \/ \E p \in {1, 3} : LockWake(p)
    \/ \E p \in {1, 3} : LockGiveUp(p)
    \/ \E p \in {1, 3} : LockFailedReturn(p)
    \/ \E p \in {1, 3} : LockExit(p)
    \/ \E p \in {1, 3} : LockRefresh(p)
    \/ \E p \in {1, 3} : LockExitFailedReturn(p)
    \/ \E p \in {1, 3} : LeaseExpire(p)
    \/ \E p \in {1, 3} : Die(p)
    \/ ClearStaleStart(2)
    \/ ClearStaleStep
    \/ ClearStaleReturn

\* One thread uses the store, the queue of its node and the locks, with and
\* without a read-only cache.
NextCache ==
    \/ CacheNew(1, 1)
    \/ CacheEnter(1, 1)
    \/ CacheExit(1, 1)
    \/ \E ty \in ObjTypes, n \in ObjNames, v \in ObjData : ObjPut(1, ty, n, v)
    \/ \E ty \in ObjTypes, n \in ObjNames, v \in ObjData :
          ObjCreate(1, ty, n, v)
    \/ \E ty \in ObjTypes, n \in ObjNames : ObjDelete(1, ty, n)
    \/ \E ty \in ObjTypes : ObjDeleteAll(1, ty)
    \/ \E r \in Rands : Enqueue(1, LocalNode, <<JsonTask("fetch_blob", 1)>>, 0, r)
    \/ DequeueCall(1, LocalNode)
    \/ DequeueRead(1)
    \/ DequeuePut(1)
    \/ DequeueDelete(1)
    \/ Resolve(1)
    \/ \E k \in LockKeys : GetLock(1, k)
    \/ LockEnter(1)
    \/ LockTry(1)
    \/ LockRefresh(1)
    \/ LockExit(1)
    \/ ClearStaleStart(1)
    \/ ClearStaleStep
    \/ ClearStaleReturn

\* One thread builds, enters and leaves cache objects, writes objects and
\* takes locks.
NextNested ==
    \/ \E c \in CacheObjs : CacheNew(1, c)
    \/ \E c \in CacheObjs : CacheEnter(1, c)
    \/ \E c \in CacheObjs : CacheExit(1, c)
    \/ \E n \in ObjNames, v \in ObjData : ObjPut(1, <<"instance">>, n, v)
    \/ \E k \in LockKeys : GetLock(1, k)
    \/ LockEnter(1)
    \/ LockTry(1)
    \/ LockExit(1)

(***************************************************************************)
(*                       THE SIDE CHANNEL MONITOR                          *)
(***************************************************************************)

\* Bounds: the clock's range for a side channel and the step it advances
\* by, in seconds.
MaxChanTime == 20
ClockStep == 5

\* poll(): `time.time() - self.last_data > 5` and `> 15`.
DispatchAfter == 5
IdleAfter == 15

\* The side channels of the instance.
Chans == {"foo", "bar"}

NEVER_TALKED == "not ready (no contact)"
STOPPED_TALKING == "not ready (unresponsive)"
AGENT_STARTED == "not ready (agent startup)"
AGENT_STOPPED == "not ready (agent stopped)"
AGENT_READY == "ready"

\* What a poll() does that others can see, in order: events, state writes
\* and packets sent.
LogEvent(type, message) ==
    [kind |-> "event", what |-> message, a |-> type, b |-> ""]
LogState(value) == [kind |-> "state", what |-> value, a |-> "", b |-> ""]
LogSent(command, a, b) == [kind |-> "send", what |-> command, a |-> a, b |-> b]

NoPoll ==
    [chan |-> "", silence |-> "", op |-> 0, from |-> NoState, log |-> <<>>,
     raised |-> "", closed |-> FALSE, opEnd |-> NoState]

IdleS ==
    /\ monAlive = FALSE
    /\ scOpen = [sc \in Chans |-> FALSE]
    /\ scConnected = [sc \in Chans |-> FALSE]
    /\ lastData = [sc \in Chans |-> 0]
    /\ ready = [sc \in Chans |-> NEVER_TALKED]
    /\ agentState = ""
    /\ bootTime = [sc \in Chans |-> 0]
    /\ pollTasks = [sc \in Chans |-> 0]
    /\ fileGet = [sc \in Chans |-> FALSE]
    /\ opQueue = <<>>
    /\ opError = [o \in OpIds |-> FALSE]
    /\ lastPoll = NoPoll

\* time.time() moves on.
TickS ==
    /\ now + ClockStep <= MaxChanTime
    /\ now' = now + ClockStep
    /\ UNCHANGED <<varsOp, varsQ, varsL, varsC, varsS, varsP, varsM, varsEtc>>

\* The supervisor forks the monitor of the instance
\* (single_instance_monitor starts with no channel).
MonitorStart ==
    /\ ~monAlive
    /\ monAlive' = TRUE
    /\ heard' = [sc \in Chans |-> FALSE]
    /\ UNCHANGED <<scOpen, scConnected, lastData, ready, agentState, bootTime,
                   pollTasks, fileGet, opQueue, opError, lastPoll, now,
                   varsOp, varsQ, varsL, varsC, varsP, varsM, restEtc,
                   lastErr>>

\* SFSocketAgent.__init__: `self.poll_tasks.append(self.is_system_running)`
\* on the list of a new agent.
TasksAfterInit == 1

\* A slip: agent_start appends the probe without looking.
TasksAfterStartAppend(n) == n + 1

\* agent_start: the probe is appended when it is not in the list.
TasksAfterStart(n) == IF n = 0 THEN n + 1 ELSE n

\* is_system_running_response: the probe is removed when it is in the list.
TasksAfterReady(n) == IF n > 0 THEN n - 1 ELSE n

\* build_side_channel_sockets: SFSocketAgent(inst, sc_path) for a channel
\* that is not open.  The base class sets last_data to the time of its
\* construction.
ChanBuild(sc) ==
    /\ monAlive
    /\ ~scOpen[sc]
    /\ scOpen' = [scOpen EXCEPT ![sc] = TRUE]
    /\ scConnected' = [scConnected EXCEPT ![sc] = FALSE]
    /\ lastData' = [lastData EXCEPT ![sc] = now]
    /\ ready' = [ready EXCEPT ![sc] = NEVER_TALKED]
    /\ agentState' = NEVER_TALKED
    /\ bootTime' = [bootTime EXCEPT ![sc] = 0]
    /\ pollTasks' = [pollTasks EXCEPT ![sc] = TasksAfterInit]
    /\ fileGet' = [fileGet EXCEPT ![sc] = FALSE]
    /\ flo' = [flo EXCEPT ![sc] = <<>>]
    /\ statResult' = [statResult EXCEPT ![sc] = FALSE]
    /\ realBoot' = [realBoot EXCEPT ![sc] = 0]
    /\ UNCHANGED <<monAlive, opQueue, opError, lastPoll, now, lastRecv,
                   startTime, varsM, varsEtc, varsOp, varsQ, varsL, varsC>>

\* The instance's agent_operation_enqueue (instance.py): the operation goes
\* to 'queued' and to the end of the instance's queue.
OpEnqueue(o) ==
    /\ opExists[o]
    /\ opState[o] = STATE_INITIAL
    /\ WriteStateEffect(o, STATE_QUEUED)
    /\ opQueue' = Append(opQueue, o)
    /\ UNCHANGED <<opExists, opStatic, lastNew, monAlive, scOpen, scConnected, lastData,
                   ready, agentState, bootTime, pollTasks, fileGet, opError,
                   lastPoll, now, varsQ, varsL, varsC, varsP, varsM, varsEtc>>

\* _record_system_boot_time.
RecordBootTime(old, sbt) == IF sbt # old THEN sbt ELSE old

\* Bound: how many chunks a staging file takes.
MaxChunks == 2

\* A key a packet does not carry.
NoSbt == -1
NoChunk == "absent"
ChunkNull == "null"

\* packet.get('system_boot_time', 0).
SbtOf(packet) == IF packet.sbt = NoSbt THEN 0 ELSE packet.sbt

\* A slip: every chunk decodes to nothing.
B64DecodeEmpty(chunk) == ""

\* base64.b64decode of the chunks the agent sends.
B64Decode(chunk) ==
    IF chunk = "aGVsbG8g" THEN "hello "
    ELSE IF chunk = "d29ybGQ=" THEN "world"
    ELSE ""

Pkt(command, result, sbt, chunk) ==
    [command |-> command, result |-> result, sbt |-> sbt, chunk |-> chunk]

\* The packets of the agent: agent-start with a boot time, and
\* is-system-running-response with its result.
Packets ==
    { Pkt("agent-start", FALSE, 100, NoChunk),
      Pkt("is-system-running-response", TRUE, 100, NoChunk),
      Pkt("is-system-running-response", FALSE, 100, NoChunk) }

\* The packets an agent sends over boots and restarts: with and without a
\* boot time, of two boots.
BootPackets ==
    { Pkt("agent-start", FALSE, sbt, NoChunk) : sbt \in {NoSbt, 100, 200} }
    \cup { Pkt("agent-stop", FALSE, NoSbt, NoChunk) }
    \cup { Pkt("is-system-running-response", r, sbt, NoChunk) :
               r \in BOOLEAN, sbt \in {NoSbt, 100} }

\* An is-system-running-response with the message systemctl printed.
PktMessage(result, message) ==
    [command |-> "is-system-running-response", result |-> result,
     sbt |-> 100, chunk |-> NoChunk, message |-> message]

\* The readiness reports of an agent, with and without a message, and its
\* agent-start.
ReadyPackets ==
    { Pkt("agent-start", FALSE, 100, NoChunk),
      Pkt("is-system-running-response", TRUE, 100, NoChunk),
      Pkt("is-system-running-response", FALSE, 100, NoChunk) }
    \cup { PktMessage(r, m) :
               r \in BOOLEAN, m \in {"degraded", "starting"} }

\* The packets that answer a get-file: a failure, the metadata packet,
\* chunks, and the terminating packet whose chunk is None.
FilePackets ==
    { Pkt("get-file-response", FALSE, NoSbt, NoChunk) }
    \cup { Pkt("get-file-response", TRUE, NoSbt, c) :
               c \in {NoChunk, "aGVsbG8g", "d29ybGQ=", ChunkNull} }

\* packet.get('message', 'none').
MessageOf(packet) ==
    IF "message" \in DOMAIN packet THEN packet.message ELSE "none"

\* A slip: a degraded system is reported as not ready.
NewStateNoDegraded(packet) ==
    IF packet.result THEN AGENT_READY
    ELSE "not ready (" \o MessageOf(packet) \o ")"

\* is_system_running_response: the new state.
NewState(packet) ==
    IF packet.result THEN AGENT_READY
    ELSE IF MessageOf(packet) = "degraded" THEN "ready (degraded)"
    ELSE "not ready (" \o MessageOf(packet) \o ")"

\* SFSocketAgent.__init__: the handlers its add_command calls register.
HandlerOf(command) ==
    IF command = "agent-start" THEN "agent_start"
    ELSE IF command = "agent-stop" THEN "agent_start"
    ELSE IF command = "is-system-running-response"
    THEN "is_system_running_response"
    ELSE "get_file_response"

\* _record_system_boot_time: the events it adds.
RebootEvents(old, sbt) ==
    IF sbt # old /\ old # 0 THEN <<LogEvent("audit", "reboot detected")>>
    ELSE <<>>

\* A slip: gather-facts goes out on every channel.
SentOnAll(sc, packets) == [c \in Chans |-> packets]

\* send_packet of the channel's agent: the packets go out on its socket.
SentOn(sc, packets) == [c \in Chans |-> IF c = sc THEN packets ELSE <<>>]

NoRecv ==
    [chan |-> "", packet |-> Pkt("", FALSE, NoSbt, NoChunk), ready0 |-> "",
     boot0 |-> 0, real0 |-> 0, tasks0 |-> 0, inflight0 |-> FALSE,
     setStart |-> FALSE, events |-> <<>>, sent |-> SentOn("", <<>>),
     callbacks |-> 0, file |-> <<>>, n |-> 0]

IdleP ==
    /\ lastRecv = NoRecv
    /\ realBoot = [sc \in Chans |-> 0]
    /\ startTime = 0
    /\ flo = [sc \in Chans |-> <<>>]
    /\ statResult = [sc \in Chans |-> FALSE]

\* What dispatch_packet leaves behind for every handler.
Received(sc, packet, setStart, events, sent, callbacks, file) ==
    /\ lastRecv' =
           [chan |-> sc, packet |-> packet, ready0 |-> ready[sc],
            boot0 |-> bootTime[sc], real0 |-> realBoot[sc],
            tasks0 |-> pollTasks[sc], inflight0 |-> fileGet[sc],
            setStart |-> setStart,
            events |-> (IF scConnected[sc] THEN <<>>
                        ELSE <<LogEvent("audit", "sidechannel connected")>>)
                       \o events,
            sent |-> SentOn(sc, sent), callbacks |-> callbacks,
            file |-> file, n |-> 1 - lastRecv.n]
    /\ realBoot' = [realBoot EXCEPT ![sc] =
                       IF SbtOf(packet) # 0
                          /\ packet.command # "get-file-response"
                       THEN SbtOf(packet) ELSE @]

\* agent_start.
AgentStart(sc, packet) ==
    /\ ready' = [ready EXCEPT ![sc] = AGENT_STARTED]
    /\ agentState' = AGENT_STARTED
    /\ startTime' = now
    /\ bootTime' = [bootTime EXCEPT ![sc] = RecordBootTime(@, SbtOf(packet))]
    /\ pollTasks' = [pollTasks EXCEPT ![sc] = TasksAfterStart(@)]
    /\ Received(sc, packet, TRUE, RebootEvents(bootTime[sc], SbtOf(packet)),
                <<>>, 0, <<>>)
    /\ UNCHANGED <<fileGet, flo, statResult>>

\* agent_stop.
AgentStop(sc, packet) ==
    /\ ready' = [ready EXCEPT ![sc] = AGENT_STOPPED]
    /\ agentState' = AGENT_STOPPED
    /\ Received(sc, packet, FALSE, <<>>, <<>>, 0, <<>>)
    /\ UNCHANGED <<startTime, bootTime, pollTasks, fileGet, flo, statResult>>

\* A slip: the attribute is written on the transition into AGENT_READY only.
AgentStateAfterReadyOnly(stored, cached, new) ==
    IF cached # new /\ new = AGENT_READY THEN new ELSE stored

\* is_system_running_response: `if self.instance_ready != new_state:` the
\* cached state and the instance's agent_state are both set.
AgentStateAfter(stored, cached, new) == IF cached # new THEN new ELSE stored

\* is_system_running_response.
IsSystemRunningResponse(sc, packet) ==
    /\ bootTime' = [bootTime EXCEPT ![sc] = RecordBootTime(@, SbtOf(packet))]
    /\ pollTasks' = [pollTasks EXCEPT ![sc] =
                        IF packet.result THEN TasksAfterReady(@) ELSE @]
    /\ ready' = [ready EXCEPT ![sc] = NewState(packet)]
    /\ agentState' = AgentStateAfter(agentState, ready[sc], NewState(packet))
    /\ Received(sc, packet, FALSE,
                RebootEvents(bootTime[sc], SbtOf(packet)),
                IF ready[sc] # NewState(packet)
                   /\ NewState(packet) = AGENT_READY
                THEN <<"gather-facts">> ELSE <<>>,
                0, <<>>)
    /\ UNCHANGED <<startTime, fileGet, flo, statResult>>

\* get_file_response.
GetFileResponse(sc, packet) ==
    /\ IF ~fileGet[sc] \/ ~packet.result
       THEN \* 'Unexpected file response', 'File get failed'
            /\ Received(sc, packet, FALSE, <<>>, <<>>, 0, <<>>)
            /\ UNCHANGED <<fileGet, flo, statResult>>
       ELSE IF packet.chunk = NoChunk
       THEN \* a metadata packet
            /\ statResult' = [statResult EXCEPT ![sc] = TRUE]
            /\ Received(sc, packet, FALSE, <<>>, <<>>, 0, <<>>)
            /\ UNCHANGED <<fileGet, flo>>
       ELSE IF packet.chunk = ChunkNull
       THEN \* the file is closed, the callback called, the record cleared
            /\ fileGet' = [fileGet EXCEPT ![sc] = FALSE]
            /\ flo' = [flo EXCEPT ![sc] = <<>>]
            /\ statResult' = [statResult EXCEPT ![sc] = FALSE]
            /\ Received(sc, packet, FALSE, <<>>, <<>>, 1, flo[sc])
       ELSE /\ Len(flo[sc]) < MaxChunks
            /\ flo' = [flo EXCEPT ![sc] = Append(@, B64Decode(packet.chunk))]
            /\ Received(sc, packet, FALSE, <<>>, <<>>, 0, <<>>)
            /\ UNCHANGED <<fileGet, statResult>>
    /\ UNCHANGED <<ready, agentState, startTime, bootTime, pollTasks>>

\* get_file: the in-flight record with its staging file, and the request.
GetFile(sc) ==
    /\ monAlive
    /\ scOpen[sc]
    /\ fileGet' = [fileGet EXCEPT ![sc] = TRUE]
    /\ flo' = [flo EXCEPT ![sc] = <<>>]
    /\ statResult' = [statResult EXCEPT ![sc] = FALSE]
    /\ lastRecv' = [NoRecv EXCEPT !.chan = sc, !.n = lastRecv.n,
                                  !.sent = SentOn(sc, <<"get-file">>)]
    /\ UNCHANGED <<monAlive, scOpen, scConnected, lastData, ready, agentState,
                   bootTime, pollTasks, opQueue, opError, lastPoll, now,
                   realBoot, startTime, varsM, varsEtc, varsOp, varsQ, varsL, varsC>>

\* The monitor's loop: a packet is found on a readable channel (which sets
\* last_data) and dispatched to its handler.
ChanReceive(sc, packet) ==
    /\ monAlive
    /\ scOpen[sc]
    /\ lastData' = [lastData EXCEPT ![sc] = now]
    /\ scConnected' = [scConnected EXCEPT ![sc] = TRUE]
    /\ LET handler == HandlerOf(packet.command)
       IN IF handler = "agent_start" THEN AgentStart(sc, packet)
          ELSE IF handler = "agent_stop" THEN AgentStop(sc, packet)
          ELSE IF handler = "is_system_running_response"
          THEN IsSystemRunningResponse(sc, packet)
          ELSE GetFileResponse(sc, packet)
    /\ heard' = [heard EXCEPT ![sc] = TRUE]
    /\ UNCHANGED <<monAlive, scOpen, opQueue, opError, lastPoll, now,
                   varsM, restEtc, lastErr, varsOp, varsQ, varsL, varsC>>

\* Blob.from_db(uuid) finds the blob; os.path.exists(Blob.filepath(uuid)).
BlobInDb(b) == b # BlobMissing
BlobFileExists(b) == b = BlobGood
BlobFilepath(b) == <<"blobs", b>>

\* A slip: the packets of the two commands exchanged.
CommandPacketSwapped(c) ==
    IF c.command = CMD_PUT_BLOB
    THEN LogSent("chmod", c.path, c.mode)
    ELSE LogSent("put-file", BlobFilepath(c.blob_uuid), c.path)

\* poll(): what put_file and chmod send for a command.
CommandPacket(c) ==
    IF c.command = CMD_PUT_BLOB
    THEN LogSent("put-file", BlobFilepath(c.blob_uuid), c.path)
    ELSE LogSent("chmod", c.path, c.mode)

\* A slip: an unknown command is reported and the loop goes on.
RECURSIVE RunCommandsContinue(_, _, _)
RunCommandsContinue(cmds, i, log) ==
    IF i > Len(cmds) THEN [log |-> log, end |-> "done"]
    ELSE IF cmds[i].command = CMD_PUT_BLOB
    THEN IF ~BlobInDb(cmds[i].blob_uuid)
         THEN [log |-> log, end |-> "blob missing"]
         ELSE IF ~BlobFileExists(cmds[i].blob_uuid)
         THEN [log |-> log, end |-> "PutException"]
         ELSE RunCommandsContinue(cmds, i + 1,
                                  Append(log, CommandPacket(cmds[i])))
    ELSE IF cmds[i].command = CMD_CHMOD
    THEN RunCommandsContinue(cmds, i + 1, Append(log, CommandPacket(cmds[i])))
    ELSE RunCommandsContinue(cmds, i + 1,
             Append(log, LogEvent("audit",
                 "Unknown agent operation command, aborting operation")))

\* poll(): `for command in agentop.commands`, from command i on.  The loop
\* ends ("done", also by the break of an unknown command), poll() returns
\* because the blob is missing, or put_file raises PutException.
RECURSIVE RunCommands(_, _, _)
RunCommands(cmds, i, log) ==
    IF i > Len(cmds) THEN [log |-> log, end |-> "done"]
    ELSE IF cmds[i].command = CMD_PUT_BLOB
    THEN IF ~BlobInDb(cmds[i].blob_uuid)
         THEN [log |-> log, end |-> "blob missing"]
         ELSE IF ~BlobFileExists(cmds[i].blob_uuid)
         THEN [log |-> log, end |-> "PutException"]
         ELSE RunCommands(cmds, i + 1, Append(log, CommandPacket(cmds[i])))
    ELSE IF cmds[i].command = CMD_CHMOD
    THEN RunCommands(cmds, i + 1, Append(log, CommandPacket(cmds[i])))
    ELSE [log |-> Append(log, LogEvent("audit",
                     "Unknown agent operation command, aborting operation")),
          end |-> "done"]

\* SocketAgent.poll of the agent library: the poll tasks run
\* (is_system_running sends a packet).
BasePoll(sc, log) ==
    log \o [i \in 1..pollTasks[sc] |-> LogSent("is-system-running", "", "")]

\* How long the channel has been silent, as poll() tests it.
Silence(sc) ==
    IF now - lastData[sc] > IdleAfter THEN "over 15"
    ELSE IF now - lastData[sc] > DispatchAfter THEN "over 5"
    ELSE "fresh"

\* poll() of a channel ends normally after the base class's poll.
PollBase(sc, op, from, log) ==
    /\ lastPoll' = [chan |-> sc, silence |-> Silence(sc), op |-> op,
                    from |-> from, log |-> BasePoll(sc, log), raised |-> "",
                    closed |-> FALSE,
                    opEnd |-> IF op = 0 THEN NoState ELSE opState'[op]]
    /\ UNCHANGED <<monAlive, scOpen, scConnected, lastData, ready, agentState,
                   bootTime, pollTasks, fileGet>>

\* poll(): an operation was dequeued and is executed.
PollDispatch(sc) ==
    LET o == Head(opQueue)
        start == <<LogEvent("audit", "Dequeued agent operation"),
                   LogState(STATE_EXECUTING)>>
        run == RunCommands(opStatic[o], 1, start)
    IN /\ opQueue' = Tail(opQueue)
       /\ StateWriteAllowed(opState[o], STATE_EXECUTING)
       /\ IF run.end = "done"
          THEN /\ opState' = [opState EXCEPT ![o] = STATE_COMPLETE]
               /\ lastWrite' = [op |-> o, from |-> STATE_EXECUTING,
                                to |-> STATE_COMPLETE, ok |-> TRUE]
               /\ UNCHANGED opError
               /\ PollBase(sc, o, opState[o],
                           Append(run.log, LogState(STATE_COMPLETE)))
          ELSE /\ opState' = [opState EXCEPT ![o] = STATE_EXECUTING]
               /\ lastWrite' = [op |-> o, from |-> opState[o],
                                to |-> STATE_EXECUTING, ok |-> TRUE]
               /\ opError' = [opError EXCEPT ![o] =
                                 IF run.end = "blob missing" THEN TRUE ELSE @]
               /\ lastPoll' = [chan |-> sc, silence |-> Silence(sc),
                               op |-> o, from |-> opState[o], log |-> run.log,
                               raised |-> IF run.end = "PutException"
                                          THEN "PutException" ELSE "",
                               closed |-> FALSE, opEnd |-> STATE_EXECUTING]
               \* PutException is not among the exceptions the monitor's
               \* loop catches: the monitor process ends.
               /\ monAlive' = (run.end # "PutException")
               /\ scOpen' = IF run.end = "PutException"
                            THEN [c \in Chans |-> FALSE] ELSE scOpen
               /\ UNCHANGED <<scConnected, lastData, ready, agentState,
                              bootTime, pollTasks, fileGet>>

\* poll(): the branch for a channel that has gone silent; the monitor's loop
\* catches ConnectionIdle and drops the channel.
PollIdle(sc) ==
    /\ ready' = [ready EXCEPT ![sc] =
                    IF agentState # NEVER_TALKED THEN STOPPED_TALKING ELSE @]
    /\ agentState' = IF agentState # NEVER_TALKED THEN STOPPED_TALKING
                     ELSE agentState
    /\ lastPoll' = [chan |-> sc, silence |-> Silence(sc), op |-> 0,
                    from |-> NoState,
                    log |-> IF bootTime[sc] # 0
                            THEN <<LogEvent("status",
                                "agent has gone silent, restarting channel")>>
                            ELSE <<>>,
                    raised |-> "ConnectionIdle", closed |-> TRUE,
                    opEnd |-> NoState]
    /\ scOpen' = [scOpen EXCEPT ![sc] = FALSE]
    /\ UNCHANGED <<monAlive, scConnected, lastData, bootTime, pollTasks,
                   fileGet, opQueue, opError, opState, lastWrite>>

\* A slip: the silence test comes first.
PollBranchIdleFirst(silent, quiet) ==
    IF silent THEN "idle" ELSE IF quiet THEN "dispatch" ELSE "base"

\* poll(): `if ... > 5: ... elif ... > 15: ...`, with quiet for the first
\* test and silent for the second.
PollBranch(silent, quiet) ==
    IF quiet THEN "dispatch" ELSE IF silent THEN "idle" ELSE "base"

\* The monitor's loop calls poll() of an open channel.
ChanPoll(sc) ==
    /\ monAlive
    /\ scOpen[sc]
    /\ LET branch == PollBranch(now - lastData[sc] > IdleAfter,
                                now - lastData[sc] > DispatchAfter)
       IN IF branch = "dispatch"
          THEN IF ready[sc] = AGENT_READY /\ ~fileGet[sc] /\ opQueue # <<>>
               THEN PollDispatch(sc)
               ELSE /\ PollBase(sc, 0, NoState, <<>>)
                    /\ UNCHANGED <<opQueue, opError, opState, lastWrite>>
          ELSE IF branch = "idle"
          THEN PollIdle(sc)
          ELSE /\ PollBase(sc, 0, NoState, <<>>)
               /\ UNCHANGED <<opQueue, opError, opState, lastWrite>>
    /\ UNCHANGED <<opExists, opStatic, lastNew, now, varsQ, varsL, varsC, varsP,
                   varsM, varsEtc>>

\* The exceptions a socket raises: the subclasses of OSError that the loop
\* names, and an OSError that is none of them.
ConnectionErrors ==
    {"BrokenPipeError", "ConnectionRefusedError", "ConnectionResetError",
     "FileNotFoundError", "OSError"}

NoErr ==
    [chan |-> "", where |-> "", err |-> "", caught |-> FALSE,
     open0 |-> [sc \in Chans |-> FALSE], n |-> 0]

IdleK ==
    /\ lastErr = NoErr
    /\ heard = [sc \in Chans |-> FALSE]

\* single_instance_monitor: the except clause around find_packets() and
\* dispatch_packet(), which names OSError and with it all its subclasses.
ReadCatches(err) == err \in ConnectionErrors

\* A slip: the except clause around poll() names OSError too.
PollCatchesOSError(err) == err \in ConnectionErrors \cup {"ConnectionIdle"}

\* single_instance_monitor: the except clause around poll().
PollCatches(err) ==
    err \in {"BrokenPipeError", "ConnectionRefusedError",
             "ConnectionResetError", "FileNotFoundError", "ConnectionIdle"}

\* A slip: the loop over sc_clients ends after the deletion.
AfterDeleteInLoopEnds == "loop"

\* single_instance_monitor: `del sc_clients[sc_name]` inside
\* `for sc_name in sc_clients`: the next step of the iteration raises
\* RuntimeError (dictionary changed size during iteration).
AfterDeleteInLoop == "RuntimeError"

\* An exception on channel sc: `del sc_clients[sc]` when the loop catches it
\* (or has deleted the entry itself); the child ends with the exception when
\* it does not.
ChanError(sc, where, err, dropped, caught) ==
    /\ monAlive
    /\ scOpen[sc]
    /\ lastErr' = [chan |-> sc, where |-> where, err |-> err,
                   caught |-> caught, open0 |-> scOpen, n |-> 1 - lastErr.n]
    /\ monAlive' = caught
    /\ scOpen' = IF caught
                 THEN [scOpen EXCEPT ![sc] = IF dropped THEN FALSE ELSE @]
                 ELSE [c \in Chans |-> FALSE]
    /\ UNCHANGED <<scConnected, lastData, ready, agentState, bootTime,
                   pollTasks, fileGet, opQueue, opError, lastPoll, now,
                   varsOp, varsQ, varsL, varsC, varsP, varsM, restEtc, heard>>

\* find_packets() or dispatch_packet() of a readable channel raises.
ChanReadRaises(sc, err) == ChanError(sc, "read", err, TRUE, ReadCatches(err))

\* poll() of a channel raises.
ChanPollRaises(sc, err) == ChanError(sc, "poll", err, TRUE, PollCatches(err))

\* select() reports the channel's descriptor as exceptional: the channel is
\* closed and deleted from sc_clients inside the loop over sc_clients.
ChanExceptional(sc) ==
    ChanError(sc, "exceptional", IF AfterDeleteInLoop = "loop" THEN ""
                                 ELSE AfterDeleteInLoop,
              TRUE, AfterDeleteInLoop = "loop")

\* The channels of one instance with their monitor, packets of the agent and
\* errors of the sockets.
NextRecover ==
    \/ MonitorStart
    \/ \E sc \in Chans : ChanBuild(sc)
    \/ \E sc \in Chans, r \in BOOLEAN :
          ChanReceive(sc, Pkt("is-system-running-response", r, 100, NoChunk))
    \/ \E sc \in Chans, err \in ConnectionErrors : ChanReadRaises(sc, err)
    \/ \E sc \in Chans, err \in ConnectionErrors : ChanPollRaises(sc, err)
    \/ \E sc \in Chans : ChanExceptional(sc)

\* One instance with one side channel, its monitor, and operations queued
\* for its agent.
NextChan ==
    \/ TickS
    \/ MonitorStart
    \/ ChanBuild("foo")
    \/ \E packet \in Packets : ChanReceive("foo", packet)
    \/ \E cmds \in CommandLists : OpNew(1, cmds)
    \/ OpEnqueue(1)
    \/ ChanPoll("foo")

(***************************************************************************)
(*                    THE SIDE CHANNEL SUPERVISOR                          *)
(***************************************************************************)

\* Bounds: the instances of the node, the children the supervisor can fork,
\* the clock's range and its step, in seconds.
MaxInsts == 1
MaxChildren == 3
MaxSupTime == 15
SupStep == 5

\* run(): `time.time() - shutdown_commenced > 10`.
ShutdownGrace == 10

Insts == 1..MaxInsts
Children == 1..MaxChildren

\* No entry in self.monitors; no child.
NoChild == 0

NoTick ==
    [exit |-> FALSE, reaped |-> {}, forked |-> {}, termed |-> {},
     dumped |-> {}, table |-> [i \in Insts |-> NoChild], returned |-> FALSE,
     raised |-> FALSE, n |-> 0]

IdleM ==
    /\ supPc = "loop"
    /\ vmRunning = [i \in Insts |-> FALSE]
    /\ monitors = [i \in Insts |-> NoChild]
    /\ childInst = [c \in Children |-> 0]
    /\ childAlive = [c \in Children |-> FALSE]
    /\ nextChild = 1
    /\ sigterm = [c \in Children |-> 0]
    /\ sigusr1 = [c \in Children |-> FALSE]
    /\ exitSet = FALSE
    /\ running = TRUE
    /\ shutdownCommenced = 0
    /\ lastTick = NoTick

\* time.time() moves on.
TickM ==
    /\ now + SupStep <= MaxSupTime
    /\ now' = now + SupStep
    /\ UNCHANGED <<varsOp, varsQ, varsL, varsC, varsS, varsP, varsM, varsEtc>>

\* libvirt: a domain of the node starts running, or is powered off.
VmStart(i) ==
    /\ ~vmRunning[i]
    /\ vmRunning' = [vmRunning EXCEPT ![i] = TRUE]
    /\ UNCHANGED <<supPc, monitors, childInst, childAlive, nextChild, sigterm,
                   sigusr1, exitSet, running, shutdownCommenced, lastTick,
                   now, othersM>>

VmStop(i) ==
    /\ vmRunning[i]
    /\ vmRunning' = [vmRunning EXCEPT ![i] = FALSE]
    /\ UNCHANGED <<supPc, monitors, childInst, childAlive, nextChild, sigterm,
                   sigusr1, exitSet, running, shutdownCommenced, lastTick,
                   now, othersM>>

\* single_instance_monitor returns in a child: its loop saw the exit flag
\* after a SIGTERM, or it ended on its own.
ChildExit(c) ==
    /\ childAlive[c]
    /\ childAlive' = [childAlive EXCEPT ![c] = FALSE]
    /\ UNCHANGED <<supPc, vmRunning, monitors, childInst, nextChild, sigterm,
                   sigusr1, exitSet, running, shutdownCommenced, lastTick,
                   now, othersM>>

\* The daemon is told to stop: self.exit is set.
SetExit ==
    /\ ~exitSet
    /\ exitSet' = TRUE
    /\ UNCHANGED <<supPc, vmRunning, monitors, childInst, childAlive,
                   nextChild, sigterm, sigusr1, running, shutdownCommenced,
                   lastTick, now, othersM>>

\* reap_single_instance_monitors: the table without the children that are
\* not alive.
Reaped(table) == {i \in Insts : table[i] # NoChild /\ ~childAlive[table[i]]}

\* run(): the instances with and without a child that should have none and
\* one: extra_instances and missing_instances.
\* A slip: no monitor is extra.
ExtraInstancesNone(table) == {}

ExtraInstances(table) == {i \in Insts : table[i] # NoChild /\ ~vmRunning[i]}
MissingInstances(table) == {i \in Insts : vmRunning[i] /\ table[i] = NoChild}

\* The child forked for instance i when the instances of `missing` get
\* theirs in turn.
ForkedFor(i, missing) == nextChild + Cardinality({j \in missing : j < i})

\* A slip: SIGUSR1 without waiting.
GraceOverAlways(commenced) == TRUE

\* run(): `time.time() - shutdown_commenced > 10`.
GraceOver(commenced) == now - commenced > ShutdownGrace

\* run()'s loop begins a pass: the dead children are reaped, and
\* `if not self.exit.is_set()` is evaluated.
SupBegin ==
    /\ supPc = "loop"
    /\ exitSet \/ nextChild + MaxInsts <= MaxChildren + 1
    /\ LET reaped == Reaped(monitors)
           table == [i \in Insts |->
                        IF i \in reaped THEN NoChild ELSE monitors[i]]
       IN /\ monitors' = table
          /\ supPc' = IF ~exitSet THEN "audit"
                      ELSE IF \E i \in Insts : table[i] # NoChild
                      THEN "shutdown"
                      ELSE "returned"
          /\ lastTick' = [exit |-> exitSet, reaped |-> reaped, forked |-> {},
                          termed |-> {}, dumped |-> {}, table |-> table,
                          returned |-> supPc' = "returned",
                          raised |-> FALSE, n |-> 1 - lastTick.n]
    /\ UNCHANGED <<vmRunning, childInst, childAlive, nextChild, sigterm,
                   sigusr1, exitSet, running, shutdownCommenced, now,
                   othersM>>

\* run(): the domains are listed, the missing monitors are started and the
\* extra ones are sent SIGTERM and dropped.
SupAudit ==
    /\ supPc = "audit"
    /\ LET extra == ExtraInstances(monitors)
           missing == MissingInstances(monitors)
       IN /\ monitors' = [i \in Insts |->
                             IF i \in missing THEN ForkedFor(i, missing)
                             ELSE IF i \in extra THEN NoChild
                             ELSE monitors[i]]
          /\ childInst' = [c \in Children |->
                              IF \E i \in missing : c = ForkedFor(i, missing)
                              THEN CHOOSE i \in missing :
                                       c = ForkedFor(i, missing)
                              ELSE childInst[c]]
          /\ childAlive' = [c \in Children |->
                               IF \E i \in missing : c = ForkedFor(i, missing)
                               THEN TRUE ELSE childAlive[c]]
          /\ nextChild' = nextChild + Cardinality(missing)
          /\ sigterm' = [c \in Children |->
                            IF \E i \in extra : monitors[i] = c
                            THEN sigterm[c] + 1 ELSE sigterm[c]]
          /\ lastTick' = [lastTick EXCEPT
                             !.forked = missing,
                             !.termed = {monitors[i] : i \in extra}]
    /\ supPc' = "loop"
    /\ UNCHANGED <<vmRunning, sigusr1, exitSet, running, shutdownCommenced,
                   now, othersM>>

\* run(): the exit flag is set and children are recorded.
SupShutdown ==
    /\ supPc = "shutdown"
    /\ LET commenced == IF running THEN now ELSE shutdownCommenced
           recorded == {monitors[i] : i \in Insts} \ {NoChild}
           termed == IF running THEN recorded ELSE {}
           dumped == IF GraceOver(commenced) THEN recorded ELSE {}
       IN /\ shutdownCommenced' = commenced
          /\ running' = FALSE
          /\ sigterm' = [c \in Children |->
                            IF c \in termed THEN sigterm[c] + 1
                            ELSE sigterm[c]]
          /\ sigusr1' = [c \in Children |-> sigusr1[c] \/ c \in dumped]
          /\ lastTick' = [lastTick EXCEPT !.termed = termed,
                                          !.dumped = dumped]
    /\ supPc' = "loop"
    /\ UNCHANGED <<vmRunning, monitors, childInst, childAlive, nextChild,
                   exitSet, now, othersM>>

\* A slip: an exception ends run().
AfterExceptionReturns == "returned"

\* run(): `except Exception as e: ignore_exception(...)` inside `while True`:
\* the loop starts its next pass.
AfterException == "loop"

\* run(): the event write of reap_single_instance_monitors raises after
\* some of the dead children were dropped; the one it was writing for stays
\* in the table.
SupReapRaises ==
    /\ supPc = "loop"
    /\ \E done \in SUBSET Reaped(monitors) :
          /\ done # Reaped(monitors)
          /\ monitors' = [i \in Insts |->
                             IF i \in done THEN NoChild ELSE monitors[i]]
          /\ lastTick' = [exit |-> exitSet, reaped |-> done, forked |-> {},
                          termed |-> {}, dumped |-> {}, table |-> monitors',
                          returned |-> FALSE, raised |-> TRUE,
                          n |-> 1 - lastTick.n]
    /\ supPc' = AfterException
    /\ UNCHANGED <<vmRunning, childInst, childAlive, nextChild, sigterm,
                   sigusr1, exitSet, running, shutdownCommenced, now,
                   othersM>>

\* The child forked for instance i when the instances of `forked` get theirs
\* in turn.
ForkedAmong(i, forked) == nextChild + Cardinality({j \in forked : j < i})

\* run(): the audit raises.  The libvirt query raises before anything is
\* done; a fork raises, or the event write after a fork, when some of the
\* missing monitors are started; the event write of the cleanup raises when
\* all of them are started and some of the extra ones are sent SIGTERM and
\* dropped.
SupAuditRaises ==
    /\ supPc = "audit"
    /\ \E forked \in SUBSET MissingInstances(monitors),
          cleaned \in SUBSET ExtraInstances(monitors) :
          /\ cleaned # {} => forked = MissingInstances(monitors)
          /\ monitors' = [i \in Insts |->
                             IF i \in forked THEN ForkedAmong(i, forked)
                             ELSE IF i \in cleaned THEN NoChild
                             ELSE monitors[i]]
          /\ childInst' = [c \in Children |->
                              IF \E i \in forked : c = ForkedAmong(i, forked)
                              THEN CHOOSE i \in forked :
                                       c = ForkedAmong(i, forked)
                              ELSE childInst[c]]
          /\ childAlive' = [c \in Children |->
                               IF \E i \in forked : c = ForkedAmong(i, forked)
                               THEN TRUE ELSE childAlive[c]]
          /\ nextChild' = nextChild + Cardinality(forked)
          /\ sigterm' = [c \in Children |->
                            IF \E i \in cleaned : monitors[i] = c
                            THEN sigterm[c] + 1 ELSE sigterm[c]]
          /\ lastTick' = [lastTick EXCEPT
                             !.forked = forked,
                             !.termed = {monitors[i] : i \in cleaned},
                             !.raised = TRUE]
    /\ supPc' = AfterException
    /\ UNCHANGED <<vmRunning, sigusr1, exitSet, running, shutdownCommenced,
                   now, othersM>>

\* The supervisor of a node, its children, the node's domains and the
\* signal that stops the daemon.
NextSup ==
    \/ TickM
    \/ \E i \in Insts : VmStart(i)
    \/ \E i \in Insts : VmStop(i)
    \/ \E c \in Children : ChildExit(c)
    \/ SetExit
    \/ SupBegin
    \/ SupAudit
    \/ SupShutdown

\* The same, with passes of the loop that raise.
NextSupFaults ==
    \/ TickM
    \/ \E i \in Insts : VmStart(i)
    \/ \E i \in Insts : VmStop(i)
    \/ \E c \in Children : ChildExit(c)
    \/ SetExit
    \/ SupBegin
    \/ SupAudit
    \/ SupShutdown
    \/ SupReapRaises
    \/ SupAuditRaises

(***************************************************************************)
(*                     THE EVENT LOG DAEMON'S DRAIN                        *)
(***************************************************************************)

\* Bounds: the events other daemons spill to etcd, and the failures of a
\* local write or of an etcd delete.
MaxEvents == 3
MaxFaults == 1

Events == 1..MaxEvents

\* The object an event is about: (objtype, objuuid) of its key.
EvObject(e) == IF e <= 2 THEN <<"instance", "a">> ELSE <<"node", "n">>

IdleE ==
    /\ evKv = {}
    /\ evSpilled = {}
    /\ evWritten = [e \in Events |-> 0]
    /\ epc = "idle"
    /\ egroups = <<>>
    /\ efaults = 0

\* A daemon that cannot reach the event node puts an event under
\* /sf/event/<objtype>/<objuuid>/<timestamp>.
EvSpill(e) ==
    /\ e \notin evSpilled
    /\ evSpilled' = evSpilled \cup {e}
    /\ evKv' = evKv \cup {e}
    /\ UNCHANGED <<evWritten, epc, egroups, efaults, now, othersE>>

\* The events of a set in key order.
RECURSIVE EvSorted(_)
EvSorted(S) ==
    IF S = {} THEN <<>>
    ELSE LET e == CHOOSE x \in S : \A y \in S : x <= y
         IN <<e>> \o EvSorted(S \ {e})

\* run(): `results`, the entries read grouped by object, as the sequence
\* the loop over it walks.
RECURSIVE EvGroups(_)
EvGroups(S) ==
    IF S = {} THEN <<>>
    ELSE LET e == CHOOSE x \in S : \A y \in S : x <= y
             group == {x \in S : EvObject(x) = EvObject(e)}
         IN <<EvSorted(group)>> \o EvGroups(S \ group)

\* run(): etcd.get_all('event', None, limit=10000) and the grouping.
DrainRead ==
    /\ epc = "idle"
    /\ evKv # {}
    /\ egroups' = EvGroups(evKv)
    /\ epc' = "write"
    /\ UNCHANGED <<evKv, evSpilled, evWritten, efaults, now, othersE>>

\* What is left to do after an entry is done, and after an exception has
\* left its group's `with` block.
EvAfterEntry(groups) ==
    IF Len(groups[1]) > 1 THEN <<Tail(groups[1])>> \o Tail(groups)
    ELSE Tail(groups)

EvAfterException(groups) == Tail(groups)

\* EventLog.write_event (eventlog.py): the event is appended to the log of
\* its object, which then holds it once more.
WriteEvent(count) == count + 1

\* run(): eventdb.write_event for the entry at hand; it raises or appends
\* the event to the object's log.
DrainWrite(ok) ==
    /\ epc = "write"
    /\ egroups # <<>>
    /\ IF ok
       THEN /\ evWritten' = [evWritten EXCEPT ![egroups[1][1]] = WriteEvent(@)]
            /\ epc' = "delete"
            /\ UNCHANGED <<egroups, efaults>>
       ELSE /\ efaults < MaxFaults
            /\ efaults' = efaults + 1
            /\ egroups' = EvAfterException(egroups)
            /\ epc' = IF egroups' = <<>> THEN "idle" ELSE "write"
            /\ UNCHANGED evWritten
    /\ UNCHANGED <<evKv, evSpilled, now, othersE>>

\* run(): etcd.get_etcd_client().delete(k) for the entry at hand; it raises
\* or deletes the key.
DrainDelete(ok) ==
    /\ epc = "delete"
    /\ IF ok
       THEN /\ evKv' = evKv \ {egroups[1][1]}
            /\ egroups' = EvAfterEntry(egroups)
            /\ UNCHANGED efaults
       ELSE /\ efaults < MaxFaults
            /\ efaults' = efaults + 1
            /\ egroups' = EvAfterException(egroups)
            /\ UNCHANGED evKv
    /\ epc' = IF egroups' = <<>> THEN "idle" ELSE "write"
    /\ UNCHANGED <<evSpilled, evWritten, now, othersE>>

NextDrain ==
    \/ \E e \in Events : EvSpill(e)
    \/ DrainRead
    \/ \E ok \in BOOLEAN : DrainWrite(ok)
    \/ \E ok \in BOOLEAN : DrainDelete(ok)

(***************************************************************************)
(*                          RETRY FOREVER                                  *)
(***************************************************************************)

\* Bounds: the attempts the wrapper is followed for, and the results a
\* prefix read yields.
MaxAttempts == 3
MaxResults == 2

\* The public operations that carry @retry_etcd_forever.
RetryOps ==
    {"get", "get_all", "get_all_dict", "put", "create", "delete",
     "delete_all", "dequeue", "clear_stale_locks"}

\* The operations whose body holds a yield: calling one returns a generator
\* and runs none of its body.
IsGenerator(op) == op = "get_all"

IdleR ==
    /\ rop = ""
    /\ rstate = "idle"
    /\ rcount = 0
    /\ rnext = 0
    /\ storeDown = FALSE

\* etcd starts and stops answering with internal server errors.
StoreFail ==
    /\ ~storeDown
    /\ storeDown' = TRUE
    /\ UNCHANGED <<rop, rstate, rcount, rnext, now, othersR>>

StoreRecover ==
    /\ storeDown
    /\ storeDown' = FALSE
    /\ UNCHANGED <<rop, rstate, rcount, rnext, now, othersR>>

\* A caller calls a public operation: wrapper() starts with count = 0.
RetryCall(op) ==
    /\ rstate \in {"idle", "returned", "raised"}
    /\ rop' = op
    /\ rstate' = "wrapper"
    /\ rcount' = 0
    /\ rnext' = 0
    /\ UNCHANGED <<storeDown, now, othersR>>

\* wrapper(): `return func(*args, **kwargs)` in the try block.  A generator
\* function returns its generator; any other body runs here, and an
\* InternalServerError it raises is caught, followed by the sleep and
\* `count += 1`.
RetryAttempt ==
    /\ rstate = "wrapper"
    /\ IF IsGenerator(rop)
       THEN /\ rstate' = "iterating"
            /\ UNCHANGED rcount
       ELSE IF storeDown
       THEN /\ rcount < MaxAttempts
            /\ rcount' = rcount + 1
            /\ UNCHANGED rstate
       ELSE /\ rstate' = "returned"
            /\ UNCHANGED rcount
    /\ UNCHANGED <<rop, rnext, storeDown, now, othersR>>

\* The caller iterates the generator: the first next() runs the body up to
\* its prefix read, outside wrapper()'s try block; later ones yield the
\* results read.
RetryIterate ==
    /\ rstate = "iterating"
    /\ IF rnext = 0 /\ storeDown
       THEN /\ rstate' = "raised"
            /\ UNCHANGED rnext
       ELSE IF rnext < MaxResults
       THEN /\ rnext' = rnext + 1
            /\ UNCHANGED rstate
       ELSE /\ rstate' = "returned"
            /\ UNCHANGED rnext
    /\ UNCHANGED <<rop, rcount, storeDown, now, othersR>>

NextRetry ==
    \/ StoreFail
    \/ StoreRecover
    \/ \E op \in RetryOps : RetryCall(op)
    \/ RetryAttempt
    \/ RetryIterate

(***************************************************************************)
(*                      CURRENT BLOB TRANSFERS                             *)
(***************************************************************************)

\* The blobs that the fetch tasks of the workitems name.
Blobs == {1, 2}

\* Whether an entry's key starts with '/sf/<word>' (a raw prefix, with no
\* slash after it).
UnderRawPrefix(word, e) == StrPrefix(word, e.phase)

\* get_outstanding_jobs: the prefix of its second read.
QueuedPrefix == "queued"

\* `for task in workitem` for a decoded workitem, the dict {'tasks': [...]}:
\* the loop variable takes the keys of the dict.
WorkitemIteration(item) ==
    <<[kind |-> "str", task |-> "tasks", blob |-> 0]>>

\* isinstance(task, FetchBlobTask).
IsFetchBlobTask(task) == task.kind = "FetchBlobTask"

\* get_current_blob_transfers: what the entries of jobs from i on add to
\* current_fetches.
RECURSIVE CurrentFetches(_, _, _, _)
CurrentFetches(jobs, i, absent, fetches) ==
    IF i > Len(jobs) THEN fetches
    ELSE LET node == jobs[i].q
             tasks == WorkitemIteration(DecodeTasks(jobs[i].item))
             found == {b \in Blobs :
                          \E k \in 1..Len(tasks) :
                              /\ IsFetchBlobTask(tasks[k])
                              /\ tasks[k].blob = b}
         IN IF node = NetworkNode \/ node \in absent
            THEN CurrentFetches(jobs, i + 1, absent, fetches)
            ELSE CurrentFetches(jobs, i + 1, absent,
                     [b \in Blobs |->
                         IF b \in found THEN Append(fetches[b], node)
                         ELSE fetches[b]])

IdleB ==
    /\ bpc = "idle"
    /\ babsent = {}
    /\ bjobs = <<>>
    /\ bstore = {}
    /\ bresult = [b \in Blobs |-> <<>>]

\* get_current_blob_transfers(absent_nodes) is called.
BlobCall(absent) ==
    /\ bpc \in {"idle", "done"}
    /\ bpc' = "processing"
    /\ babsent' = absent
    /\ bjobs' = <<>>
    /\ bstore' = kv
    /\ bresult' = [b \in Blobs |-> <<>>]
    /\ UNCHANGED <<now, othersB>>

\* get_outstanding_jobs: get_prefix('/sf/processing').
BlobReadProcessing ==
    /\ bpc = "processing"
    /\ bjobs' = SortedEntries({e \in kv : UnderRawPrefix("processing", e)})
    /\ bpc' = "queued"
    /\ UNCHANGED <<babsent, bstore, bresult, now, othersB>>

\* get_outstanding_jobs: get_prefix('/sf/queued'); the loop over the jobs
\* ends and current_fetches is returned.
BlobReadQueued ==
    /\ bpc = "queued"
    /\ LET jobs ==
               bjobs \o SortedEntries({e \in kv :
                                           UnderRawPrefix(QueuedPrefix, e)})
       IN /\ bjobs' = jobs
          /\ bresult' = CurrentFetches(jobs, 1, babsent,
                                       [b \in Blobs |-> <<>>])
    /\ bpc' = "done"
    /\ UNCHANGED <<babsent, bstore, now, othersB>>

\* The queues of three nodes with a dispatcher, and a caller of
\* get_current_blob_transfers.
NextBlob ==
    \/ \E q \in QNames, w \in Items, r \in Rands : Enqueue(1, q, w, 0, r)
    \/ \E q \in QNames : DequeueCall(1, q)
    \/ DequeueRead(1)
    \/ DequeuePut(1)
    \/ DequeueDelete(1)
    \/ Resolve(1)
    \/ \E absent \in {{}, {OtherNode}} : BlobCall(absent)
    \/ BlobReadProcessing
    \/ BlobReadQueued

\* The subsystems that stand apart, at rest.
(***************************************************************************)
(*                     AgentOperation.add_result                           *)
(***************************************************************************)

\* The indexes of the results of an operation, and the values.
ResultIndexes == {0, 1, 2}
\* The value each caller passes.
CallerValue(p) == IF p = 1 THEN "v" ELSE "w"
NoResult == "none"

\* The key of the lock that get_lock_attr('results', ...) returns for the
\* operation.
ResultsLock == "lock-a"

\* The callers of add_result: two processes of the local node.
Callers == {1, 2}

NoArg == [index |-> 0, kind |-> "", value |-> NoResult]
NoResults == [i \in ResultIndexes |-> NoResult]

IdleA ==
    /\ apc = [p \in Callers |-> "idle"]
    /\ aarg = [p \in Callers |-> NoArg]
    /\ aread = [p \in Callers |-> NoResults]
    /\ opResults = NoResults
    /\ resultsBefore = NoResults

\* The `results` property: the 'results' member of the stored attribute, {}
\* when there is none.  json.loads gives every key back as a string, which
\* is how the mapping is kept here: opResults[i] is the entry under str(i).
ResultsProperty == opResults

\* json.dumps(..., sort_keys=True) of the put sorts the keys of the mapping
\* and raises TypeError when an int key stands beside the str keys that were
\* read.
CanEncode(read, kind) ==
    kind = "str" \/ \A i \in ResultIndexes : read[i] = NoResult

\* A slip: the mapping written holds the new entry only.
MergeResultNewOnly(read, index, value) ==
    [NoResults EXCEPT ![index] = value]

\* add_result: `results[index] = value` on what was read, as it is stored.
MergeResult(read, index, value) == [read EXCEPT ![index] = value]

\* add_result(index, value) is called by p; index is an int or a str.
AddResultCall(p, index, kind, value) ==
    /\ apc[p] = "idle"
    /\ lpc[p] = "idle"
    /\ aarg[p] = NoArg
    /\ apc' = [apc EXCEPT ![p] = "lock"]
    /\ aarg' = [aarg EXCEPT ![p] =
                   [index |-> index, kind |-> kind, value |-> value]]
    /\ UNCHANGED <<aread, opResults, resultsBefore, now, othersA>>

\* add_result: `results = self.results` inside the with block.
AddResultRead(p) ==
    /\ apc[p] = "lock"
    /\ lpc[p] = "cs"
    /\ aread' = [aread EXCEPT ![p] = ResultsProperty]
    /\ apc' = [apc EXCEPT ![p] = "read"]
    /\ UNCHANGED <<aarg, opResults, resultsBefore, now, othersA>>

\* add_result: `results[index] = value` and _db_set_attribute, which puts
\* the mapping or raises TypeError.
AddResultWrite(p) ==
    /\ apc[p] = "read"
    /\ lpc[p] = "cs"
    /\ IF CanEncode(aread[p], aarg[p].kind)
       THEN /\ opResults' = MergeResult(aread[p], aarg[p].index,
                                        aarg[p].value)
            /\ apc' = [apc EXCEPT ![p] = "written"]
       ELSE /\ UNCHANGED opResults
            /\ apc' = [apc EXCEPT ![p] = "TypeError"]
    /\ UNCHANGED <<aarg, aread, resultsBefore, now, othersA>>

\* add_result ends: it returns when __exit__ released the lock after the
\* put, and raises otherwise (the lock was not acquired, the put raised, or
\* __exit__ raised).
AddResultEnd(p) ==
    /\ apc[p] \in {"written", "TypeError", "exiting"}
    /\ lpc[p] = "idle"
    /\ apc' = [apc EXCEPT ![p] = IF apc[p] = "written" THEN "returned"
                                  ELSE "raised"]
    /\ UNCHANGED <<aarg, aread, opResults, resultsBefore, now, othersA>>

\* add_result: __enter__ or __exit__ has raised LockException.
AddResultLockRaised(p) ==
    /\ \/ apc[p] = "lock" /\ lpc[p] = "failed"
       \/ apc[p] \in {"written", "TypeError"} /\ lpc[p] = "relfailed"
    /\ apc' = [apc EXCEPT ![p] = "exiting"]
    /\ UNCHANGED <<aarg, aread, opResults, resultsBefore, now, othersA>>

\* Two processes call add_result on one operation, once each.
NextResults ==
    \/ TickL
    \/ \E p \in Callers, i \in ResultIndexes \ {0}, kind \in {"int", "str"} :
          AddResultCall(p, i, kind, CallerValue(p))
    \/ \E p \in Callers : apc[p] = "lock" /\ GetLock(p, ResultsLock)
    \/ \E p \in Callers : LockEnter(p)
    \/ \E p \in Callers : LockTry(p)
    \/ \E p \in Callers : LockWake(p)
    \/ \E p \in Callers : LockGiveUp(p)
    \/ \E p \in Callers : apc[p] = "exiting" /\ LockFailedReturn(p)
    \/ \E p \in Callers : AddResultRead(p)
    \/ \E p \in Callers : AddResultWrite(p)
    \/ \E p \in Callers : apc[p] \in {"written", "TypeError"} /\ LockExit(p)
    \/ \E p \in Callers : AddResultLockRaised(p)
    \/ \E p \in Callers : apc[p] = "exiting" /\ LockExitFailedReturn(p)
    \/ \E p \in Callers : AddResultEnd(p)
    \/ \E p \in Callers : LeaseExpire(p)

(***************************************************************************)
(*                 READS THROUGH A READ-ONLY CACHE                         *)
(***************************************************************************)

\* The keys a thread reads, as the segments after '/sf/': two instances, a
\* node, and a key with no UUID in it.
GKeys ==
    { <<"instance", "u1">>, <<"instance", "u2">>, <<"node", "n1">>,
      <<"ipmanager", "floating">> }

\* The keys other processes write and delete, and the values they write.
GStored == { <<"instance", "u1">>, <<"instance", "u2">>, <<"node", "n1">> }
GValues == {"a", "b"}

\* No value under a key in etcd; no entry in self.cache; Python's None.
GNone == "None"

\* uuid_regex.match(segment).
IsUuid(segment) == segment \in {"u1", "u2"}

\* key.startswith(prefix) for keys and prefixes made of whole segments.
KeyStartsWith(key, prefix) ==
    /\ Len(prefix) <= Len(key)
    /\ \A i \in 1..Len(prefix) : key[i] = prefix[i]

\* _find_prefix: `while keys: if uuid_regex.match(keys.pop()): return
\* '/'.join(keys)`, and ValueError when the segments run out.
RECURSIVE PopToUuid(_)
PopToUuid(keys) ==
    IF keys = <<>> THEN <<"ValueError">>
    ELSE IF IsUuid(keys[Len(keys)]) THEN SubSeq(keys, 1, Len(keys) - 1)
    ELSE PopToUuid(SubSeq(keys, 1, Len(keys) - 1))

\* _find_prefix: the special cases come first.
FindPrefix(key) ==
    IF key[1] \in {"namespace", "node", "metrics"} THEN <<key[1]>>
    ELSE IF key[1] = "attribute" /\ Len(key) > 1
            /\ key[2] \in {"namespace", "node", "metrics"}
    THEN <<key[1], key[2]>>
    ELSE PopToUuid(key)

\* _cached: some prefix of self.prefixes starts the key.
Cached(prefixes, key) == \E q \in prefixes : KeyStartsWith(key, q)

\* _cache_prefix: every key that etcd holds under the prefix is put into
\* self.cache.
CachePrefix(cache, store, prefix) ==
    [k \in GKeys |->
        IF KeyStartsWith(k, prefix) /\ store[k] # GNone THEN store[k]
        ELSE cache[k]]

NoGObj == [st |-> "none", prefixes |-> {}, cache |-> [k \in GKeys |-> GNone]]
NoGet ==
    [key |-> <<>>, reads |-> 0, value |-> GNone, raised |-> "",
     loaded |-> FALSE, n |-> 0]

IdleG ==
    /\ gstore = [k \in GKeys |-> GNone]
    /\ gobj = NoGObj
    /\ gscope = {}
    /\ gsnap = [k \in GKeys |-> GNone]
    /\ lastGet = NoGet

\* Another process puts or deletes a key.
GStoreWrite(k, v) ==
    /\ gstore[k] # v
    /\ gstore' = [gstore EXCEPT ![k] = v]
    /\ UNCHANGED <<gobj, gscope, gsnap, lastGet, now, othersG>>

\* ThreadLocalReadOnlyCache.__init__: `self.prefixes = []`.
GNew ==
    /\ gobj.st = "none"
    /\ gobj' = [gobj EXCEPT !.st = "built", !.prefixes = {}]
    /\ UNCHANGED <<gstore, gscope, gsnap, lastGet, now, othersG>>

\* __enter__: `self.cache = {}` and the object becomes the thread's cache.
GEnter ==
    /\ gobj.st = "built"
    /\ gobj' = [gobj EXCEPT !.st = "entered",
                            !.cache = [k \in GKeys |-> GNone]]
    /\ gscope' = {}
    /\ gsnap' = [k \in GKeys |-> GNone]
    /\ UNCHANGED <<gstore, lastGet, now, othersG>>

\* __exit__: the thread has no cache; the object stays as it is.
GExit ==
    /\ gobj.st = "entered"
    /\ gobj' = [gobj EXCEPT !.st = "built"]
    /\ UNCHANGED <<gstore, gscope, gsnap, lastGet, now, othersG>>

\* get() of the thread inside the scope: cache.get(path), which reads the
\* key's prefix from etcd when no prefix of self.prefixes starts the key.
GGet(k) ==
    /\ gobj.st = "entered"
    /\ LET hit == Cached(gobj.prefixes, k)
           prefix == FindPrefix(k)
           raises == ~hit /\ prefix = <<"ValueError">>
           read == ~hit /\ ~raises
           cache == IF read THEN CachePrefix(gobj.cache, gstore, prefix)
                    ELSE gobj.cache
       IN /\ gobj' = [gobj EXCEPT
                          !.cache = cache,
                          !.prefixes = IF read THEN @ \cup {prefix} ELSE @]
          /\ gscope' = IF read THEN gscope \cup {prefix} ELSE gscope
          /\ gsnap' = IF read
                      THEN [x \in GKeys |->
                               IF KeyStartsWith(x, prefix) THEN gstore[x]
                               ELSE gsnap[x]]
                      ELSE gsnap
          /\ lastGet' = [key |-> k, reads |-> IF read THEN 1 ELSE 0,
                         value |-> IF raises THEN GNone ELSE cache[k],
                         raised |-> IF raises THEN "ValueError" ELSE "",
                         loaded |-> Cached(gscope, k),
                         n |-> 1 - lastGet.n]
    /\ UNCHANGED <<gstore, now, othersG>>

\* A thread that builds a cache object, enters and leaves its scope and reads
\* keys inside it, while other processes write and delete keys.
NextSnapshot ==
    \/ \E k \in GStored, v \in GValues \cup {GNone} : GStoreWrite(k, v)
    \/ GNew
    \/ GEnter
    \/ GExit
    \/ \E k \in GKeys : GGet(k)

IdleEtc == IdleE /\ IdleR /\ IdleB /\ IdleA /\ IdleK /\ IdleG

(***************************************************************************)
(*                           SPECIFICATIONS                                *)
(***************************************************************************)

InitOp == IdleOp /\ now = 0 /\ IdleQ /\ IdleL /\ IdleC
    /\ IdleS /\ IdleP /\ IdleM /\ IdleEtc

NextOp ==
    \/ \E o \in OpIds, cmds \in CommandLists : OpNew(o, cmds)
    \/ \E o \in OpIds, t \in WriteValues : OpWriteState(o, t)
    \/ \E o \in OpIds : OpDelete(o)


SpecOp == InitOp /\ [][NextOp]_vars

\* One dispatcher per daemon: dequeue, resolve, crash and restart in sequence.
InitQueue == IdleOp /\ now = 0 /\ InitQ({1}, {LocalNode}, FALSE) /\ IdleL /\ IdleC
    /\ IdleS /\ IdleP /\ IdleM /\ IdleEtc

SpecQueue == InitQueue /\ [][NextQ]_vars

\* Two dispatchers on the same queues.
InitQueue2 ==
    IdleOp /\ now = 0 /\ InitQ({1, 2}, {LocalNode}, FALSE) /\ IdleL /\ IdleC
    /\ IdleS /\ IdleP /\ IdleM /\ IdleEtc

SpecQueue2 == InitQueue2 /\ [][NextQ]_vars

InitLock == IdleOp /\ now = 0 /\ IdleQ /\ IdleL /\ IdleC
    /\ IdleS /\ IdleP /\ IdleM /\ IdleEtc

SpecLock == InitLock /\ [][NextL]_vars

SpecStale == InitLock /\ [][NextStale]_vars

InitCache ==
    IdleOp /\ now = 0 /\ InitQ({1}, {LocalNode}, FALSE) /\ IdleL /\ IdleC
    /\ IdleS /\ IdleP /\ IdleM /\ IdleEtc

SpecCache == InitCache /\ [][NextCache]_vars

SpecNested == InitCache /\ [][NextNested]_vars

SpecChan == InitOp /\ [][NextChan]_vars

\* One instance with two side channels and the packets of its agents.
NextPackets ==
    \/ MonitorStart
    \/ \E sc \in Chans : ChanBuild(sc)
    \/ \E sc \in Chans, packet \in BootPackets : ChanReceive(sc, packet)

SpecPackets == InitOp /\ [][NextPackets]_vars

\* The channels of an instance with get-files and the packets that answer
\* them.
NextFileGet ==
    \/ MonitorStart
    \/ \E sc \in Chans : ChanBuild(sc)
    \/ \E sc \in Chans : GetFile(sc)
    \/ \E sc \in Chans, packet \in FilePackets : ChanReceive(sc, packet)

SpecFileGet == InitOp /\ [][NextFileGet]_vars

\* The packets of a session with file transfers: readiness reports, and the
\* answers to a get-file.
GatePackets ==
    { Pkt("is-system-running-response", r, 100, NoChunk) : r \in BOOLEAN }
    \cup { Pkt("get-file-response", FALSE, NoSbt, NoChunk),
           Pkt("get-file-response", TRUE, NoSbt, ChunkNull) }

\* One side channel with its monitor, an operation queued for the agent, and
\* file GETs on the channel.
NextGate ==
    \/ TickS
    \/ MonitorStart
    \/ ChanBuild("foo")
    \/ \E packet \in GatePackets : ChanReceive("foo", packet)
    \/ GetFile("foo")
    \/ OpNew(1, <<PutBlob(BlobGood), Chmod>>)
    \/ OpEnqueue(1)
    \/ ChanPoll("foo")

\* One side channel with its monitor and the readiness reports of the agent.
NextReady ==
    \/ TickS
    \/ MonitorStart
    \/ ChanBuild("foo")
    \/ \E packet \in ReadyPackets : ChanReceive("foo", packet)
    \/ ChanPoll("foo")

SpecReady == InitOp /\ [][NextReady]_vars

SpecRecover == InitOp /\ [][NextRecover]_vars

SpecSnapshot == InitOp /\ [][NextSnapshot]_vars

\* The side channels of one instance with their monitor, and the operations
\* queued for its agent, whose first command names a blob that is missing.
NextSerial ==
    \/ TickS
    \/ MonitorStart
    \/ \E sc \in Chans : ChanBuild(sc)
    \/ \E sc \in Chans :
          ChanReceive(sc, Pkt("is-system-running-response", TRUE, 100,
                              NoChunk))
    \/ \E o \in OpIds : OpNew(o, <<PutBlob(BlobMissing), Chmod>>)
    \/ \E o \in OpIds : OpEnqueue(o)
    \/ \E sc \in Chans : ChanPoll(sc)

SpecSerial == InitOp /\ [][NextSerial]_vars

\* The monitor's loop calls poll() of every open channel in each of its
\* passes.
SpecGate ==
    InitOp /\ [][NextGate]_vars /\ WF_vars(ChanPoll("foo"))

\* A node that is or is not the network node, with the queues of the three
\* nodes.
InitRestart ==
    /\ IdleOp /\ now = 0 /\ IdleL /\ IdleC
    /\ IdleS /\ IdleP /\ IdleM /\ IdleEtc
    /\ \E netnode \in BOOLEAN : InitQ({1}, QNames, netnode)

SpecRestart == InitRestart /\ [][NextRestart]_vars

\* The network node, with the queues of the three nodes.
InitIsolation ==
    /\ IdleOp /\ now = 0 /\ IdleL /\ IdleC
    /\ IdleS /\ IdleP /\ IdleM /\ IdleEtc
    /\ InitQ({1}, QNames, TRUE)

SpecIsolation == InitIsolation /\ [][NextIsolation]_vars

SpecSup == InitOp /\ [][NextSup]_vars

SpecSupFaults == InitOp /\ [][NextSupFaults]_vars

SpecDrain == InitOp /\ [][NextDrain]_vars

SpecRetry == InitOp /\ [][NextRetry]_vars

InitBlob ==
    IdleOp /\ now = 0 /\ InitQ({1}, QNames, FALSE) /\ IdleL /\ IdleC
    /\ IdleS /\ IdleP /\ IdleM /\ IdleEtc

SpecBlob == InitBlob /\ [][NextBlob]_vars

\* The operation has no results yet, or one under index 0.
InitResults ==
    /\ IdleOp /\ now = 0 /\ IdleQ /\ IdleL /\ IdleC
    /\ IdleS /\ IdleP /\ IdleM /\ IdleE /\ IdleR /\ IdleB /\ IdleK /\ IdleG
    /\ apc = [p \in Callers |-> "idle"]
    /\ aarg = [p \in Callers |-> NoArg]
    /\ aread = [p \in Callers |-> NoResults]
    /\ opResults \in {NoResults, [NoResults EXCEPT ![0] = "u"]}
    /\ resultsBefore = opResults

SpecResults == InitResults /\ [][NextResults]_vars

\* The supervisor's loop keeps running: no pass of it blocks for ever.
SpecSupFair ==
    InitOp /\ [][NextSup]_vars
    /\ WF_vars(SupBegin) /\ WF_vars(SupAudit) /\ WF_vars(SupShutdown)

(***************************************************************************)
(*                               CLAIMS                                    *)
(***************************************************************************)

(***************************************************************************)
(* C1.  A write of state t to an AgentOperation in state s succeeds        *)
(* exactly when t is a legal successor of s in the declared table; every   *)
(* other write fails and leaves the state as it was, so 'deleted' is       *)
(* terminal.  The table is written out here as the specification gives it  *)
(* (with the unset state's entry as declared: initial or error).           *)
(***************************************************************************)
DeclaredSuccessors ==
    [s \in OpStates \cup {NoState} |->
        CASE s = NoState -> {"initial", "error"}
          [] s = "initial" -> {"preflight", "queued", "deleted", "error"}
          [] s = "preflight" -> {"queued", "deleted", "error"}
          [] s = "queued" -> {"executing", "deleted", "error"}
          [] s = "executing" -> {"complete", "deleted", "error"}
          [] s = "complete" -> {"deleted"}
          [] s = "error" -> {"deleted"}
          [] s = "deleted" -> {}]

C1_LegalTransitionsOnly ==
    lastWrite.op \in OpIds =>
        /\ lastWrite.from \in DOMAIN DeclaredSuccessors
        /\ lastWrite.ok <=> lastWrite.to \in DeclaredSuccessors[lastWrite.from]
        /\ opState[lastWrite.op] =
               IF lastWrite.to \in DeclaredSuccessors[lastWrite.from]
               THEN lastWrite.to ELSE lastWrite.from
        /\ lastWrite.from = "deleted" => opState[lastWrite.op] = "deleted"

\* A write to a deleted operation was refused and it is still deleted.
C1_Witness ==
    /\ lastWrite.op \in OpIds
    /\ lastWrite.from = "deleted"
    /\ lastWrite.to = "error"
    /\ ~lastWrite.ok
    /\ opState[lastWrite.op] = "deleted"

(***************************************************************************)
(* C2.  Queue recovery.  dequeue(q) returns the workitem that was enqueued *)
(* (decoded), under the jobname it was enqueued with, whenever the first   *)
(* key of the queue is due.  When restart_queues() returns after a crash,  *)
(* every job of the local queue that had been handed out and not resolved  *)
(* is back under queue/<q> with the same jobname and the same content and  *)
(* is gone from processing/<q>, so that dequeue hands it out again; a job  *)
(* that was resolved is in neither place and is not handed out again.      *)
(***************************************************************************)
QueueOf(q) == {e \in kv : e.phase = "queue" /\ e.q = q}

\* The entry dequeue(q) has to return now: the one with the smallest key,
\* when it is due.
DueFirst(q) ==
    {e \in QueueOf(q) :
        /\ e.job[1] <= now
        /\ \A f \in QueueOf(q) \ {e} : KeyLess(e.job, f.job)}

C2_ReturnsEnqueued ==
    \A d \in disp :
        dpc[d] = "work" =>
            LET r == djob[d][2]
            IN /\ r \in Rands
               /\ enq[r] # NoEnq
               /\ dq[d] = enq[r].q
               /\ djob[d] = <<enq[r].due, r>>
               /\ ditem[d] = DecodeTasks(enq[r].item)

C2_ResolvedIsGone ==
    \A e \in kv : e.job[2] \notin resolved

C2_ReadStep ==
    \A d \in disp :
        (dpc[d] = "read" /\ dpc'[d] \in {"put", "none"}) =>
            IF DueFirst(dq[d]) # {}
            THEN /\ dpc'[d] = "put"
                 /\ \E e \in DueFirst(dq[d]) : djob'[d] = e.job
            ELSE dpc'[d] = "none"

C2_RestartStep ==
    (rpc # "off" /\ rpc' = "off") =>
        \A r \in Rands :
            (enq[r].q = LocalNode /\ handed[r] > 0 /\ r \notin resolved) =>
                /\ Entry("queue", LocalNode, <<enq[r].due, r>>, enq[r].item)
                       \in kv'
                /\ \A e \in kv' : e.job[2] = r => e.phase = "queue"

C2_QueueRecovery ==
    /\ [](C2_ReturnsEnqueued /\ C2_ResolvedIsGone)
    /\ [][C2_ReadStep /\ C2_RestartStep]_vars

\* A dispatcher holds a job again that had been handed out before the crash.
C2_Witness ==
    \E d \in disp :
        /\ dpc[d] = "work"
        /\ djob[d][2] \in prior
        /\ djob[d][2] \notin resolved

(***************************************************************************)
(* C3.  Deferred dispatch.  A workitem enqueued at time t with delay D is  *)
(* not read, moved to processing/<q> or returned by dequeue before t + D;  *)
(* a dequeue that finds only entries in the future returns (None, None)    *)
(* and leaves the store as it was.                                         *)
(***************************************************************************)
C3_NotBeforeDue ==
    /\ \A e \in kv : e.phase = "processing" => enq[e.job[2]].due <= now
    /\ \A d \in disp :
           dpc[d] \in {"put", "delete", "work"} => enq[djob[d][2]].due <= now

C3_FutureOnlyStep ==
    \A d \in disp :
        ( /\ dpc[d] = "read" /\ dpc'[d] \in {"put", "none"}
          /\ QueueOf(dq[d]) # {}
          /\ \A e \in QueueOf(dq[d]) : e.job[1] > now )
        => (dpc'[d] = "none" /\ kv' = kv)

C3_DeferredDispatch ==
    /\ []C3_NotBeforeDue
    /\ [][C3_FutureOnlyStep]_vars

\* dequeue returned (None, None) on a queue that holds a deferred workitem
\* which is not due yet.
C3_Witness ==
    \E d \in disp :
        /\ dpc[d] = "none"
        /\ \E e \in QueueOf(dq[d]) :
              /\ enq[e.job[2]].delay > 0
              /\ e.job[1] > now

(***************************************************************************)
(* C4.  Lock exclusion.                                                    *)
(***************************************************************************)
\* p is inside the `with` block of its lock and its lease has not run out.
HoldsLock(p) == lpc[p] = "cs" /\ now < lexp[p]

C4_AtMostOneHolder ==
    \A p, q \in Procs :
        (HoldsLock(p) /\ HoldsLock(q) /\ lk[p] = lk[q]) => p = q

C4_HolderIsWritten ==
    \A p \in Procs : HoldsLock(p) => locks[lk[p]] = HolderValue(p)

C4_AcquireStep ==
    \A p \in Procs :
        (lpc[p] = "loop" /\ lpc'[p] \in {"cs", "sleep"}) =>
            /\ now - lstart[p] < LockTimeout
            /\ lpc'[p] = "cs" <=> locks[lk[p]] = NoHolder
            /\ lpc'[p] = "cs" =>
                   locks'[lk[p]] = HolderValue(p) /\ lexp'[p] = now + LockTtl

C4_TimeoutStep ==
    \A p \in Procs :
        /\ lpc'[p] = "failed" => lpc[p] \in {"loop", "failed"}
        /\ (lpc[p] = "loop" /\ lpc'[p] = "failed") =>
               /\ now - lstart[p] >= LockTimeout
               /\ holderSeen'[p] = locks[lk[p]]
               /\ \A q \in Procs :
                      (HoldsLock(q) /\ lk[q] = lk[p]) =>
                          holderSeen'[p] = HolderValue(q)
               /\ locks' = locks
        /\ lpc[p] = "failed" => lpc'[p] \in {"failed", "idle", "dead"}

StaleAtCall(holder) ==
    /\ holder.node = LocalNode
    /\ \A p \in Procs :
           (ProcNode(p) = LocalNode /\ ProcPid(p) = holder.pid) =>
               p \in wasDead

\* C5: when clear_stale_locks() on the local node has looked at everything
\* it read, no lock key remains whose node is the local node and whose pid
\* was not a running process of the local node when it was called.
C5_StaleLocksCleared ==
    (spc = "scan" /\ slist = <<>>) =>
        \A k \in LockKeys : ~StaleAtCall(locks[k])

\* The scan is over and has deleted the lock of process 1, which was not
\* running when the scan was started.
C5_Witness ==
    /\ spc = "scan"
    /\ slist = <<>>
    /\ 1 \in wasDead
    /\ \E r \in removed : r.holder = HolderValue(1)

(***************************************************************************)
(* C6.  Cache isolation.                                                   *)
(***************************************************************************)
\* The step is a put of an event by thread 1 and changes nothing else.
C6_EventPutStep ==
    /\ \E k \in ObjTypes \X ObjNames :
          IsEventType(k[1]) /\ db' = [db EXCEPT ![k] = db'[k]]
    /\ UNCHANGED <<kv, locks, lpc, dpc, spc, lexp>>

\* The step is thread 1 leaving the `with` block of a lock it took before
\* (the claim names the acquisition and the refresh of a lock, not its
\* release).
C6_ReleaseStep ==
    lpc[1] = "cs" /\ lpc'[1] \in {"idle", "relfailed"} /\ UNCHANGED <<kv, db>>

\* The step is a call that raised the forbidden-while-cached error and
\* changed nothing.
C6_ForbiddenStep ==
    cerr' /\ UNCHANGED <<kv, locks, db, lpc, dpc, spc, lexp>>

\* The step is a call on a cache object that changes nothing else.
C6_CacheStep ==
    lastCache' # lastCache /\ UNCHANGED <<kv, locks, db, lpc, dpc, spc, lexp>>

\* C6: while thread 1 has a read-only cache, every call it makes (put,
\* create, delete, delete_all, enqueue, dequeue, resolve, taking a lock,
\* refreshing a lock, clear_stale_locks) raises the forbidden-while-cached
\* error and leaves the store as it was; the only write that goes through
\* is the put of an event.
C6_CacheIsolation ==
    [][(roCache[1] /\ roCache'[1]) =>
           (C6_ForbiddenStep \/ C6_EventPutStep \/ C6_ReleaseStep
            \/ C6_CacheStep)]_vars

(***************************************************************************)
(* C8.  Agent dispatch.                                                    *)
(***************************************************************************)
\* What a poll() that executes [put-blob B, chmod /p 0755] has to do first,
\* in this order.
C8_Expected(b) ==
    << LogEvent("audit", "Dequeued agent operation"),
       LogState(STATE_EXECUTING),
       LogSent("put-file", <<"blobs", b>>, "/p"),
       LogSent("chmod", "/p", "0755"),
       LogState(STATE_COMPLETE) >>

\* C8: when the last poll() dequeued an operation whose commands are
\* [put-blob B, chmod path mode] with B in the database and its file on the
\* node, the operation was 'queued', the poll emitted the 'Dequeued agent
\* operation' audit event, wrote 'executing', sent put-file for B's blob path
\* and then chmod with the path and the mode, and wrote 'complete', in this
\* order; it raised nothing and the operation ended in 'complete'.
C8_AgentDispatch ==
    (lastPoll.op # 0 /\ opStatic[lastPoll.op] = <<PutBlob(BlobGood), Chmod>>)
    => /\ lastPoll.from = STATE_QUEUED
       /\ Len(lastPoll.log) >= 5
       /\ SubSeq(lastPoll.log, 1, 5) = C8_Expected(BlobGood)
       /\ \A i \in 6..Len(lastPoll.log) :
              lastPoll.log[i].what \notin {"put-file", "chmod"}
       /\ lastPoll.raised = ""
       /\ lastPoll.opEnd = STATE_COMPLETE

\* A poll() has dequeued and executed such an operation.
C8_Witness ==
    /\ lastPoll.op # 0
    /\ opStatic[lastPoll.op] = <<PutBlob(BlobGood), Chmod>>
    /\ lastPoll.opEnd = STATE_COMPLETE
    /\ opState[lastPoll.op] = STATE_COMPLETE

(***************************************************************************)
(* C9.  Every dequeued operation is completed.                             *)
(***************************************************************************)
\* C9: an operation that a poll() dequeued and moved to 'executing' is in
\* 'complete' when that poll() has ended, also when one of its commands
\* failed; no operation is left in 'executing'.
C9_ExecutingIsCompleted ==
    /\ lastPoll.op # 0 => lastPoll.opEnd = STATE_COMPLETE
    /\ \A o \in OpIds : opState[o] # STATE_EXECUTING

(***************************************************************************)
(* C10.  Silence timeout.                                                  *)
(***************************************************************************)
\* C10: a poll() that ran on a channel whose last inbound byte was more than
\* 15 s old closed the channel and raised ConnectionIdle, and the monitor
\* dropped the channel.
C10_SilenceTimeout ==
    lastPoll.silence = "over 15" =>
        /\ lastPoll.raised = "ConnectionIdle"
        /\ lastPoll.closed

(***************************************************************************)
(* C11.  Reboot detection: a dispatched packet of an agent adds a 'reboot  *)
(* detected' audit event exactly when it reports a boot time that differs  *)
(* from the boot time the agent last reported on the channel (the time of  *)
(* a real earlier boot); a packet without a boot time adds none and does   *)
(* not make the next real boot time go unnoticed.                          *)
(***************************************************************************)
HasRebootEvent(events) ==
    \E k \in 1..Len(events) : events[k].what = "reboot detected"

C11_RebootDetection ==
    lastRecv.packet.command \in
        {"agent-start", "agent-stop", "is-system-running-response"}
    => (HasRebootEvent(lastRecv.events)
        <=> /\ SbtOf(lastRecv.packet) # 0
            /\ lastRecv.real0 # 0
            /\ SbtOf(lastRecv.packet) # lastRecv.real0)

(***************************************************************************)
(* C12.  File GET reassembly: while a get-file is in flight, a chunk       *)
(* packet appends its decoded chunk to the staging file, the metadata      *)
(* packet leaves the file alone, and the packet whose chunk is None calls  *)
(* the completion callback once, with the file holding the chunks in       *)
(* arrival order, and clears the in-flight record.  A get-file-response    *)
(* with no get-file in flight changes nothing.                             *)
(***************************************************************************)
C12_Plain(chunk) ==
    IF chunk = "aGVsbG8g" THEN "hello " ELSE "world"

C12_ResponseStep ==
    LET sc == lastRecv'.chan
        packet == lastRecv'.packet
    IN (lastRecv'.n # lastRecv.n /\ packet.command = "get-file-response")
       => /\ ~fileGet[sc]
             => /\ UNCHANGED <<fileGet, flo, statResult, ready, bootTime,
                               pollTasks, agentState>>
                /\ lastRecv'.callbacks = 0
                /\ lastRecv'.sent = [c \in Chans |-> <<>>]
          /\ (fileGet[sc] /\ packet.result)
             => /\ packet.chunk = NoChunk
                   => /\ UNCHANGED <<fileGet, flo>>
                      /\ lastRecv'.callbacks = 0
                /\ packet.chunk = ChunkNull
                   => /\ lastRecv'.callbacks = 1
                      /\ lastRecv'.file = flo[sc]
                      /\ ~fileGet'[sc]
                /\ packet.chunk \notin {NoChunk, ChunkNull}
                   => /\ flo'[sc] = Append(flo[sc], C12_Plain(packet.chunk))
                      /\ fileGet'[sc]
                      /\ lastRecv'.callbacks = 0
          /\ \A c \in Chans \ {sc} : flo'[c] = flo[c] /\ fileGet'[c] = fileGet[c]

C12_FileGetReassembly == [][C12_ResponseStep]_vars

\* The packets chunk "hello ", chunk "world" and the terminating packet
\* have arrived for a get-file.
C12_Witness ==
    /\ lastRecv.packet.command = "get-file-response"
    /\ lastRecv.packet.chunk = ChunkNull
    /\ lastRecv.callbacks = 1
    /\ lastRecv.file = <<"hello ", "world">>
    /\ ~fileGet[lastRecv.chan]

(***************************************************************************)
(* C13.  After an agent-stop packet the channel's instance_ready and the   *)
(* instance's agent_state are AGENT_STOPPED, and the packet has not        *)
(* recorded an agent start time, changed the boot time or re-added the     *)
(* is-system-running probe.                                                *)
(***************************************************************************)
C13_AgentStop ==
    lastRecv.packet.command = "agent-stop"
    => /\ ready[lastRecv.chan] = AGENT_STOPPED
       /\ agentState = AGENT_STOPPED
       /\ ~lastRecv.setStart
       /\ bootTime[lastRecv.chan] = lastRecv.boot0
       /\ pollTasks[lastRecv.chan] = lastRecv.tasks0

(***************************************************************************)
(* C14.  Channel symmetry and isolation: a packet dispatched on one        *)
(* channel sends nothing on another channel and leaves the other           *)
(* channel's instance_ready, boot time and poll tasks unchanged; an        *)
(* is-system-running-response with a truthy result that follows an         *)
(* agent-start sends gather-facts on its own channel.                      *)
(***************************************************************************)
C14_DispatchStep ==
    LET sc == lastRecv'.chan
        packet == lastRecv'.packet
    IN (lastRecv'.n # lastRecv.n)
       => /\ \A other \in Chans \ {sc} :
                 /\ lastRecv'.sent[other] = <<>>
                 /\ ready'[other] = ready[other]
                 /\ bootTime'[other] = bootTime[other]
                 /\ pollTasks'[other] = pollTasks[other]
          /\ (/\ packet.command = "is-system-running-response"
              /\ packet.result
              /\ ready[sc] = AGENT_STARTED)
             => lastRecv'.sent[sc] = <<"gather-facts">>

C14_ChannelIsolation == [][C14_DispatchStep]_vars

\* Both channels are open, and on "foo" the truthy response that followed
\* an agent-start has sent gather-facts.
C14_Witness ==
    /\ scOpen["foo"] /\ scOpen["bar"]
    /\ lastRecv.chan = "foo"
    /\ lastRecv.packet.command = "is-system-running-response"
    /\ lastRecv.packet.result
    /\ lastRecv.ready0 = AGENT_STARTED
    /\ lastRecv.sent["foo"] = <<"gather-facts">>
    /\ ready["bar"] = NEVER_TALKED

(***************************************************************************)
(* C15.  At any time at most one live monitor child exists per instance    *)
(* of the node.                                                            *)
(***************************************************************************)
LiveChildren(i) == {c \in Children : childAlive[c] /\ childInst[c] = i}

C15_OneChildPerInstance ==
    \A i \in Insts : Cardinality(LiveChildren(i)) <= 1

(***************************************************************************)
(* C16.  Supervisor shutdown: a pass of run()'s loop that found the exit   *)
(* signal set forks no child, and no pass after it does; every recorded    *)
(* child is sent SIGTERM once; SIGUSR1 is sent to the recorded children    *)
(* only when more than 10 s have passed since shutdown commenced; run()    *)
(* returns only with an empty monitor table; and once the exit signal is   *)
(* set and every child has exited, run() eventually returns.               *)
(***************************************************************************)
Recorded == {monitors[i] : i \in Insts} \ {NoChild}

C16_NoForkStep ==
    (lastTick.exit /\ supPc # "returned") => nextChild' = nextChild

C16_SigtermOnce ==
    /\ \A c \in Children : sigterm[c] <= 1
    /\ ~running => \A c \in Recorded : sigterm[c] = 1

C16_DumpStep ==
    sigusr1' # sigusr1
    => /\ exitSet
       /\ now - shutdownCommenced' > 10
       /\ \A c \in Children :
              (sigusr1'[c] /\ ~sigusr1[c]) => c \in Recorded

C16_ReturnsEmpty == supPc = "returned" => Recorded = {}

C16_Returns ==
    (exitSet /\ [](\A c \in Children : ~childAlive[c]))
        ~> (supPc = "returned")

C16_SupervisorShutdown ==
    /\ [][C16_NoForkStep /\ C16_DumpStep]_vars
    /\ [](C16_SigtermOnce /\ C16_ReturnsEmpty)
    /\ C16_Returns

\* As stated: no child is forked in any step taken while the exit signal is
\* set.
C16_NoForkOnceSetStep == exitSet => nextChild' = nextChild

C16_AsStated ==
    /\ [][C16_NoForkOnceSetStep /\ C16_DumpStep]_vars
    /\ [](C16_SigtermOnce /\ C16_ReturnsEmpty)
    /\ C16_Returns

\* SIGUSR1 went to a child that outlived the 10 s, and run() has returned
\* after the child was gone.
C16_Witness ==
    /\ supPc = "returned"
    /\ \E c \in Children : sigterm[c] = 1 /\ sigusr1[c]

(***************************************************************************)
(* C17.  Event drain: an entry under the event prefix is deleted only      *)
(* after its event was written to the local log, an entry whose write      *)
(* failed stays in etcd, and whatever writes and deletes fail no event is  *)
(* written to the local log more than once.                                *)
(***************************************************************************)
C17_DeletedAfterWrite ==
    \A e \in evSpilled : e \notin evKv => evWritten[e] >= 1

C17_KeptUntilWritten ==
    \A e \in evSpilled : evWritten[e] = 0 => e \in evKv

C17_EventDrain ==
    /\ C17_DeletedAfterWrite
    /\ C17_KeptUntilWritten
    /\ \A e \in Events : evWritten[e] <= 1

(***************************************************************************)
(* C18.  Retry for ever: an internal server error of the store never       *)
(* reaches the caller of a public operation, whether it occurs in the      *)
(* call or while the results of a prefix read are iterated.                *)
(***************************************************************************)
C18_NeverSurfaces == rstate # "raised"

(***************************************************************************)
(* C19.  get_current_blob_transfers(absent_nodes) returns for every blob   *)
(* the nodes (not absent, not 'networknode') with a FetchBlobTask for it   *)
(* in a workitem under /sf/queue/<n>/ or /sf/processing/<n>/: a node whose *)
(* entry with such a task was there from the call to the return is in the  *)
(* list of the blob, and a node in the list had such an entry.             *)
(***************************************************************************)
FetchesBlob(e, b) ==
    \E k \in 1..Len(e.item) :
        /\ DecodeTasks(e.item)[k].kind = "FetchBlobTask"
        /\ DecodeTasks(e.item)[k].blob = b

InList(n, list) == \E k \in 1..Len(list) : list[k] = n

C19_BlobTransfers ==
    bpc = "done"
    => \A b \in Blobs :
          /\ \A e \in bstore \cap kv :
                 (/\ FetchesBlob(e, b)
                  /\ e.q \notin babsent
                  /\ e.q # NetworkNode)
                 => InList(e.q, bresult[b])
          /\ \A n \in QNames :
                 InList(n, bresult[b])
                 => /\ n \notin babsent
                    /\ n # NetworkNode
                    /\ \E r \in Rands :
                           /\ enq[r].q = n
                           /\ FetchesBlob(enq[r], b)

(***************************************************************************)
(* C20.  Dispatch order within one queue: the entry a dequeue(q) takes has *)
(* the smallest time prefix of the entries then under queue/<q>, and the   *)
(* jobs a dispatcher gets from successive dequeues of one queue, with      *)
(* nothing added to a queue in between, have non-decreasing time prefixes. *)
(***************************************************************************)
C20_TakeStep ==
    \A d \in disp :
        (dpc[d] = "read" /\ dpc'[d] = "put")
        => /\ \A e \in kv :
                  (e.phase = "queue" /\ e.q = dq[d])
                  => djob'[d][1] <= e.job[1]
           /\ \E e \in kv :
                  e.phase = "queue" /\ e.q = dq[d] /\ e.job = djob'[d]

C20_ReturnStep ==
    \A d \in disp :
        (dpc[d] = "delete" /\ dpc'[d] = "work" /\ lastOut[d].q = dq[d])
        => lastOut[d].t <= lastOut'[d].t

C20_DispatchOrder == [][C20_TakeStep /\ C20_ReturnStep]_vars

\* A dispatcher has been returned a later job of the queue after an earlier
\* one, with another entry still waiting.
C20_Witness ==
    \E d \in disp :
        /\ dpc[d] = "work"
        /\ lastOut[d].q = dq[d]
        /\ lastOut[d].t = djob[d][1]
        /\ lastOut[d].prev >= 0
        /\ lastOut[d].prev < lastOut[d].t

(***************************************************************************)
(* C21.  Unknown agent command.                                            *)
(***************************************************************************)
\* The position of the first command of cmds that is neither put-blob nor
\* chmod, 0 when there is none.
FirstUnknown(cmds) ==
    LET K == {k \in 1..Len(cmds) :
                 cmds[k].command \notin {CMD_PUT_BLOB, CMD_CHMOD}}
    IN IF K = {} THEN 0 ELSE CHOOSE k \in K : \A j \in K : k <= j

\* The commands before position k can be sent: each is a chmod or a put-blob
\* of a blob that is in the database with its file on the node.
SendableBefore(cmds, k) ==
    \A i \in 1..(k - 1) :
        cmds[i].command = CMD_PUT_BLOB =>
            BlobInDb(cmds[i].blob_uuid) /\ BlobFileExists(cmds[i].blob_uuid)

\* What is sent for the command at position i.
C21_Sent(cmds, i) ==
    IF cmds[i].command = CMD_PUT_BLOB
    THEN LogSent("put-file", <<"blobs", cmds[i].blob_uuid>>, cmds[i].path)
    ELSE LogSent("chmod", cmds[i].path, cmds[i].mode)

\* C21: when the last poll() dequeued an operation whose first command other
\* than put-blob and chmod is at position k, and the commands before k can be
\* sent, then after the 'Dequeued agent operation' event and the write of
\* 'executing' the poll sent the commands before k in their order, emitted
\* the 'Unknown agent operation command, aborting operation' audit event
\* and wrote 'complete'; it sent no put-file and no chmod besides those of
\* the commands before k, and the operation ended in 'complete'.
C21_UnknownCommand ==
    LET cmds == opStatic[lastPoll.op]
        k == FirstUnknown(cmds)
        log == lastPoll.log
    IN (lastPoll.op # 0 /\ k # 0 /\ SendableBefore(cmds, k))
       => /\ Len(log) >= k + 3
          /\ \A i \in 1..(k - 1) : log[i + 2] = C21_Sent(cmds, i)
          /\ log[k + 2] = LogEvent("audit",
                 "Unknown agent operation command, aborting operation")
          /\ log[k + 3] = LogState(STATE_COMPLETE)
          /\ \A i \in (k + 3)..Len(log) :
                 log[i].what \notin {"put-file", "chmod"}
          /\ lastPoll.raised = ""
          /\ lastPoll.opEnd = STATE_COMPLETE
          /\ opState[lastPoll.op] = STATE_COMPLETE

\* A poll() has executed an operation with a command sent before the unknown
\* one and a command after it.
C21_Witness ==
    LET cmds == opStatic[lastPoll.op]
    IN /\ lastPoll.op # 0
       /\ FirstUnknown(cmds) = 2
       /\ Len(cmds) = 3
       /\ SendableBefore(cmds, 2)
       /\ lastPoll.log[3] = LogSent("chmod", "/p", "0755")
       /\ opState[lastPoll.op] = STATE_COMPLETE

(***************************************************************************)
(* C22.  AgentOperation.new is idempotent.                                 *)
(***************************************************************************)
\* A call of new(o, commands) has been made in this step.
C22_Called == lastNew' # lastNew

\* C22: a call of new with the uuid of an operation that exists changes
\* neither the operation's stored payload nor its state, whatever state it
\* has reached, and the operation goes on existing; a call with a uuid that
\* does not exist creates the operation with the commands of the call and
\* leaves it in 'initial'.  No call changes another operation.
C22_NewStep ==
    C22_Called =>
        LET o == lastNew'.op
        IN /\ opExists'[o]
           /\ IF opExists[o]
              THEN opStatic'[o] = opStatic[o] /\ opState'[o] = opState[o]
              ELSE /\ opStatic'[o] = lastNew'.commands
                   /\ opState'[o] = STATE_INITIAL
           /\ \A x \in OpIds \ {o} :
                  /\ opExists'[x] = opExists[x]
                  /\ opStatic'[x] = opStatic[x]
                  /\ opState'[x] = opState[x]

C22_NewIdempotent == [][C22_NewStep]_vars

\* new was called with other commands for an operation that had left
\* 'initial', and the operation has kept its payload and its state.
C22_Witness ==
    /\ lastNew.op # 0
    /\ opExists[lastNew.op]
    /\ opStatic[lastNew.op] # lastNew.commands
    /\ opState[lastNew.op] = STATE_COMPLETE

(***************************************************************************)
(* C23.  add_result loses no update.                                       *)
(***************************************************************************)
\* The call of p has returned.
C23_Returned(p) == apc[p] = "returned"

\* C23: when the calls add_result(i, v) and add_result(j, w) of two callers
\* with i # j on the same operation have both returned, however their steps
\* and the expiry of their leases were interleaved, the stored results hold
\* v under i, w under j and every entry they held before the calls.
C23_NoLostUpdate ==
    \A p, q \in Callers :
        (/\ p # q
         /\ C23_Returned(p)
         /\ C23_Returned(q)
         /\ aarg[p].index # aarg[q].index)
        => /\ opResults[aarg[p].index] = aarg[p].value
           /\ opResults[aarg[q].index] = aarg[q].value
           /\ \A i \in ResultIndexes :
                  resultsBefore[i] # NoResult =>
                      opResults[i] = resultsBefore[i]

\* Both calls have returned, on an operation that had a result before, and
\* the second caller read the entry of the first.
C23_Witness ==
    /\ C23_Returned(1)
    /\ C23_Returned(2)
    /\ aarg[1].index # aarg[2].index
    /\ resultsBefore[0] = "u"
    /\ aread[2][aarg[1].index] = aarg[1].value

(***************************************************************************)
(* C24.  Releasing a lock that is no longer owned.                         *)
(***************************************************************************)
\* p is inside the `with` block of a lock whose key it does not own any
\* more: the key is missing or holds the value of another process.
C24_NotOwner(p) ==
    /\ lpc[p] = "cs"
    /\ \/ locks[lk[p]] = NoHolder
       \/ \E q \in Procs \ {p} : locks[lk[p]] = HolderValue(q)

\* C24: when a process leaves the `with` block of a lock whose key is
\* missing or is held by another process, __exit__ raises the lock release
\* error and every lock key is as it was: the other process's lock is
\* neither deleted nor altered.
C24_ReleaseStep ==
    \A p \in Procs :
        (C24_NotOwner(p) /\ lpc'[p] \in {"idle", "relfailed"})
        => /\ lpc'[p] = "relfailed"
           /\ locks' = locks

C24_ReleaseNotOwned == [][C24_ReleaseStep]_vars

\* The release of process 1 has failed on a key that process 2 holds with an
\* unexpired lease, after the lease of process 1 ran out.
C24_Witness ==
    /\ lpc[1] = "relfailed"
    /\ lk[2] = lk[1]
    /\ HoldsLock(2)
    /\ locks[lk[1]] = HolderValue(2)

(***************************************************************************)
(* C25.  A second read-only cache.                                         *)
(***************************************************************************)
\* The step is a call on a cache object.
C25_Called(call) == lastCache' # lastCache /\ lastCache'.call = call

\* A cache that is opened while the thread has one: the call fails and the
\* thread's cache and the cache objects are as they were.
C25_SecondOpenStep ==
    ((C25_Called("new") \/ C25_Called("enter")) /\ roCache[1])
    => /\ lastCache'.raised
       /\ roCache' = roCache
       /\ cobj' = cobj

\* The scope of a cache exits: the thread has no cache.
C25_ExitStep == C25_Called("exit") => ~roCache'[1]

\* Without a cache no call raises the forbidden-while-cached error and a
\* cache can be built.
C25_AfterStep ==
    ~roCache[1] => /\ ~cerr'
                   /\ C25_Called("new") => ~lastCache'.raised

\* C25: opening a second read-only cache in a thread that has one fails and
\* leaves the active cache in place; when the scope of a cache exits the
\* thread has no cache, after which its puts and lock acquisitions do not
\* raise the forbidden-while-cached error and a new cache can be opened.
C25_SecondCache ==
    [][C25_SecondOpenStep /\ C25_ExitStep /\ C25_AfterStep]_vars

(***************************************************************************)
(* C26.  Supervisor fault tolerance.                                       *)
(***************************************************************************)
\* Child c is in the monitor table.
C26_InTable(c, table) == \E i \in Insts : table[i] = c

\* A pass of the loop has raised in this step.
C26_Raised == lastTick' # lastTick /\ lastTick'.raised

\* C26: a pass of the supervisor's loop that raises (in the hypervisor
\* query, a fork or an event write) is caught: run() does not end and the
\* loop is at the start of its next pass.  Every child that is alive after
\* it and was in the monitor table before it, or was forked in it, is in the
\* table, except the children the pass itself sent SIGTERM and dropped
\* because their domain is not running.  run() returns only with the exit
\* signal set and an empty table, from a pass that did not raise.
C26_RaisedStep ==
    C26_Raised =>
        /\ supPc' = "loop"
        /\ \A c \in Children :
               (/\ childAlive'[c]
                /\ C26_InTable(c, monitors) \/ ~childAlive[c]
                /\ c \notin lastTick'.termed)
               => C26_InTable(c, monitors')

C26_ReturnStep ==
    (supPc # "returned" /\ supPc' = "returned") =>
        /\ exitSet
        /\ \A i \in Insts : monitors'[i] = NoChild
        /\ ~lastTick'.raised

C27_PassEnds == supPc = "audit" /\ supPc' = "loop" /\ ~lastTick'.raised

\* C27: when a pass of the supervisor's loop that found the exit signal not
\* set ends, the instances in the monitor table are the domains of the node
\* that the pass found running (not off, crashed or paused).  An instance
\* whose child the pass reaped and whose domain is running has a new child,
\* alive and forked in the same pass.
C27_PassStep ==
    C27_PassEnds =>
        /\ {i \in Insts : monitors'[i] # NoChild}
               = {i \in Insts : vmRunning[i]}
        /\ \A i \in lastTick.reaped :
               vmRunning[i] =>
                   /\ i \in lastTick'.forked
                   /\ monitors'[i] # NoChild
                   /\ childAlive'[monitors'[i]]
                   /\ ~childAlive[monitors'[i]]
                   /\ childInst'[monitors'[i]] = i

C27_Reconciliation == [][C27_PassStep]_vars

\* A pass has ended that reaped the child of a running domain and forked a
\* new one for it.
C27_Witness ==
    /\ supPc = "loop"
    /\ ~lastTick.exit
    /\ ~lastTick.raised
    /\ lastTick.reaped # {}
    /\ lastTick.forked = lastTick.reaped
    /\ \A i \in lastTick.forked : monitors[i] > 1

(***************************************************************************)
(* C28.  restart_queues().                                                 *)
(***************************************************************************)
\* The queues restart_queues() of this node is to restart.
C28_Queues == IF isNetNode THEN {LocalNode, NetworkNode} ELSE {LocalNode}

\* The keys at which two stores differ.
C28_Changed(a, b) ==
    {[phase |-> e.phase, q |-> e.q, job |-> e.job] :
        e \in (a \ b) \cup (b \ a)}

\* Every step of restart_queues() either leaves the store as it is, or
\* writes the queue copy of a processing entry of one of its queues under
\* the same queue, jobname and content and changes no other key, or deletes
\* a processing entry of one of its queues whose queue copy is there and
\* changes no other key.
C28_Step ==
    (rpc # "off" /\ rpc' # "boot" /\ <<rpc, rq, rlist>> # <<rpc', rq', rlist'>>)
    => \/ kv' = kv
       \/ \E e \in kv :
             /\ e.phase = "processing"
             /\ e.q \in C28_Queues
             /\ Entry("queue", e.q, e.job, e.item) \in kv'
             /\ e \in kv'
             /\ C28_Changed(kv, kv')
                    \subseteq {[phase |-> "queue", q |-> e.q, job |-> e.job]}
       \/ \E e \in kv :
             /\ e.phase = "processing"
             /\ e.q \in C28_Queues
             /\ Entry("queue", e.q, e.job, e.item) \in kv
             /\ kv' = kv \ {e}

\* When restart_queues() returns, no entry is left under processing/ of its
\* queues, and every job that was enqueued on one of them and not resolved
\* is under queue/ with its jobname and content.
C28_ReturnStep ==
    (rpc # "off" /\ rpc' = "off") =>
        /\ \A e \in kv' : e.phase = "processing" => e.q \notin C28_Queues
        /\ \A r \in Rands :
               (enq[r] # NoEnq /\ enq[r].q \in C28_Queues
                /\ r \notin resolved) =>
                   Entry("queue", enq[r].q, <<enq[r].due, r>>, enq[r].item)
                       \in kv'

\* C28: restart_queues() on a node moves every entry under processing/ of
\* the node's queue, and of the network node's queue only when the node is
\* the network node, to queue/ of the same queue under the same jobname
\* with the same content and removes the processing copy; it changes no
\* other entry of any queue and no processing entry of another node.
C28_RestartQueues == [][C28_Step /\ C28_ReturnStep]_vars

\* restart_queues() has returned on the network node: a job of the network
\* node's queue that had been handed out is back in that queue, and a
\* processing entry of another node is where it was.
C28_Witness ==
    /\ rpc = "off"
    /\ isNetNode
    /\ \E r \in prior :
          /\ enq[r].q = NetworkNode
          /\ handed[r] = 0
          /\ Entry("queue", NetworkNode, <<enq[r].due, r>>, enq[r].item)
                 \in kv
    /\ \E e \in kv : e.phase = "processing" /\ e.q = OtherNode

(***************************************************************************)
(* C29.  Dispatch gating.                                                  *)
(***************************************************************************)
C29_InQueue(o) == \E i \in 1..Len(opQueue) : opQueue[i] = o

C29_ReadyQuiet(sc) ==
    /\ monAlive
    /\ scOpen[sc]
    /\ ready[sc] = AGENT_READY
    /\ now - lastData[sc] > DispatchAfter

\* The last thing that happened to the channel's file GET is a response
\* that reported failure.
C29_GetFailed(sc) ==
    /\ lastRecv.chan = sc
    /\ lastRecv.packet.command = "get-file-response"
    /\ ~lastRecv.packet.result
    /\ lastRecv.inflight0

\* A poll() takes an operation off the queue only when the channel has been
\* quiet for more than 5 s, the agent is ready and no file GET is in flight.
C29_DequeueStep ==
    opQueue' # opQueue /\ Len(opQueue') < Len(opQueue) =>
        /\ lastPoll'.op = Head(opQueue)
        /\ now - lastData[lastPoll'.chan] > DispatchAfter
        /\ ready[lastPoll'.chan] = AGENT_READY
        /\ ~fileGet[lastPoll'.chan]

C29_OnlyWhenGated == [][C29_DequeueStep]_vars

\* A queued operation on a channel that stays ready and quiet, with no file
\* GET in flight, is dequeued.
C29_DequeuedWithoutGet ==
    \A o \in OpIds :
        (C29_InQueue(o) /\ [](C29_ReadyQuiet("foo") /\ ~fileGet["foo"]))
            ~> ~C29_InQueue(o)

\* C29: poll() dequeues an operation only when more than 5 s have passed
\* since the last inbound byte, the agent is ready and no file GET is in
\* flight; and a queued operation on a channel that stays ready and quiet is
\* eventually dequeued, a file GET counting as over when it completed or
\* when its response reported failure.
C29_DispatchGating ==
    /\ C29_OnlyWhenGated
    /\ \A o \in OpIds :
           (C29_InQueue(o)
            /\ [](C29_ReadyQuiet("foo")
                  /\ (~fileGet["foo"] \/ C29_GetFailed("foo"))))
               ~> ~C29_InQueue(o)

(***************************************************************************)
(* C30.  One operation of an instance at a time.                           *)
(***************************************************************************)
C30_Executing == {o \in OpIds : opState[o] = STATE_EXECUTING}

\* C30: at any moment at most one agent operation of the instance is in
\* state 'executing', whatever the number of its side channels and the
\* outcome of the commands of earlier operations.
C30_OneAtATime == Cardinality(C30_Executing) <= 1

(***************************************************************************)
(* C31.  gather-facts on the transition into AGENT_READY.                  *)
(***************************************************************************)
C31_Response ==
    /\ lastRecv.chan # ""
    /\ lastRecv.packet.command = "is-system-running-response"

C31_Expected(packet) ==
    IF packet.result THEN AGENT_READY
    ELSE IF "message" \in DOMAIN packet /\ packet.message = "degraded"
    THEN "ready (degraded)"
    ELSE IF "message" \in DOMAIN packet /\ packet.message = "starting"
    THEN "not ready (starting)"
    ELSE "not ready (none)"

\* C31: an is-system-running-response with a true result received while the
\* channel is not AGENT_READY sets it to AGENT_READY and sends one
\* gather-facts; one received while it is AGENT_READY sends nothing; a false
\* result sets 'ready (degraded)' for the message 'degraded' and
\* 'not ready (<message>)' otherwise, and sends nothing.
C31_GatherFacts ==
    C31_Response =>
        /\ ready[lastRecv.chan] = C31_Expected(lastRecv.packet)
        /\ lastRecv.sent[lastRecv.chan] =
               IF lastRecv.packet.result /\ lastRecv.ready0 # AGENT_READY
               THEN <<"gather-facts">> ELSE <<>>
        /\ \A c \in Chans \ {lastRecv.chan} : lastRecv.sent[c] = <<>>

\* A degraded report on a channel that a true result had made ready.
C31_Witness ==
    /\ C31_Response
    /\ ready[lastRecv.chan] = "ready (degraded)"
    /\ lastRecv.ready0 = AGENT_READY
    /\ lastRecv.sent[lastRecv.chan] = <<>>

(***************************************************************************)
(* C32.  The is-system-running probe in the poll task list.                *)
(***************************************************************************)
C32_Handled(command) ==
    /\ lastRecv' # lastRecv
    /\ lastRecv'.packet.command = command

C32_ProbeStep ==
    /\ C32_Handled("is-system-running-response") /\ lastRecv'.packet.result
           => pollTasks'[lastRecv'.chan] = 0
    /\ C32_Handled("agent-start") => pollTasks'[lastRecv'.chan] = 1

\* C32: the is-system-running probe is in a channel's poll task list at
\* most once; it is not in the list after the agent reported ready, and it
\* is in the list after an agent-start.
C32_ProbeOnce ==
    /\ [](\A sc \in Chans : pollTasks[sc] \in {0, 1})
    /\ [][C32_ProbeStep]_vars

\* An agent-start that puts the probe back after a ready report removed it.
C32_Witness ==
    /\ lastRecv.packet.command = "agent-start"
    /\ lastRecv.tasks0 = 0
    /\ pollTasks[lastRecv.chan] = 1

(***************************************************************************)
(* C33.  The 'sidechannel connected' event, once per channel.              *)
(***************************************************************************)
C33_Emitted(events) ==
    \E i \in 1..Len(events) :
        events[i] = LogEvent("audit", "sidechannel connected")

C33_PacketStep ==
    /\ lastRecv' # lastRecv
    /\ lastRecv'.packet.command # ""

C33_ConnectedStep ==
    C33_PacketStep =>
        (C33_Emitted(lastRecv'.events) <=> ~heard[lastRecv'.chan])

\* C33: over the life of a monitor child the 'sidechannel connected' event
\* is emitted for a channel with the first packet received on it and with no
\* later one, also after the channel was dropped and built again.
C33_ConnectedOnce == [][C33_ConnectedStep]_vars

(***************************************************************************)
(* C34.  Channel recovery.                                                 *)
(***************************************************************************)
C34_Raised(where) ==
    /\ lastErr' # lastErr
    /\ lastErr'.where \in where

\* The channel of the exception is gone from the table, the others are as
\* they were, and the child runs: build_side_channel_sockets, whose
\* condition is that the child runs and the channel is not in the table,
\* can build it again.
C34_Recovered ==
    LET sc == lastErr'.chan
    IN /\ monAlive'
       /\ ~scOpen'[sc]
       /\ \A c \in Chans \ {sc} :
              /\ scOpen'[c] = scOpen[c]
              /\ ready'[c] = ready[c]
              /\ scConnected'[c] = scConnected[c]
              /\ pollTasks'[c] = pollTasks[c]

\* The part that holds: an exception the loop catches.
C34_RecoveryWhenCaught ==
    [][C34_Raised({"read", "poll"}) /\ lastErr'.caught => C34_Recovered]_vars

\* The exceptions of the claim are caught where they are raised, but for an
\* OSError that poll() raises.
C34_CaughtButOne ==
    [][C34_Raised({"read", "poll"}) =>
          (lastErr'.caught <=>
              ~(lastErr'.where = "poll" /\ lastErr'.err = "OSError"))]_vars

\* C34: when reading or polling a channel raises a connection error, that
\* channel and no other is removed from the child's table, the child's loop
\* goes on, and the channel is opened again later.
C34_ChannelRecovery ==
    [][C34_Raised({"read", "poll"}) => C34_Recovered]_vars

(***************************************************************************)
(* C39.  An exceptional condition on a channel's descriptor.               *)
(***************************************************************************)
\* C39: when select() reports an exceptional condition on a channel's
\* descriptor, the child closes and removes that channel and no other, and
\* its loop goes on without raising.
C39_ExceptionalChannel ==
    [][C34_Raised({"exceptional"}) =>
          /\ lastErr'.err = ""
          /\ monAlive'
          /\ scOpen' = [scOpen EXCEPT ![lastErr'.chan] = FALSE]]_vars

(***************************************************************************)
(* C40.  The cached state and the persisted agent state.                   *)
(***************************************************************************)
\* C40: with a single side channel, the channel's instance_ready equals the
\* agent_state last written to the instance, after every packet handler and
\* every poll().
C40_CacheAgrees == scOpen["foo"] => ready["foo"] = agentState

\* A report that changed the state of a ready channel.
C40_Witness ==
    /\ lastRecv.chan = "foo"
    /\ lastRecv.packet.command = "is-system-running-response"
    /\ lastRecv.ready0 = AGENT_READY
    /\ ready["foo"] = "not ready (starting)"
    /\ agentState = "not ready (starting)"
    /\ lastPoll.chan = "foo"

(***************************************************************************)
(* C35.  Snapshot reads.                                                   *)
(***************************************************************************)
C35_Get ==
    /\ lastGet' # lastGet
    /\ lastGet'.raised = ""

\* A get of a key whose prefix was not read in this scope reads it once and
\* returns what etcd holds; a get of a key whose prefix was read returns
\* what etcd held then, and reads nothing.
C35_GetStep ==
    C35_Get =>
        IF lastGet'.loaded
        THEN /\ lastGet'.reads = 0
             /\ lastGet'.value = gsnap[lastGet'.key]
        ELSE /\ lastGet'.reads = 1
             /\ lastGet'.value = gstore[lastGet'.key]

\* The part that holds: the gets of a scope whose object has read no prefix
\* in an earlier scope.
C35_SnapshotInFirstScope ==
    [][gobj.prefixes = gscope => C35_GetStep]_vars

\* C35: inside a read-only cache scope the first get of a key issues one
\* prefix read of the store for the key's covering prefix; a later get of a
\* key under a prefix that was loaded issues none and returns the value the
\* key had when the prefix was loaded, whatever others have done to the key
\* since.
C35_SnapshotReads == [][C35_GetStep]_vars

(***************************************************************************)
(* C36.  No workitem is lost while it moves.  In every state, those in the *)
(* middle of dequeue and of _restart_queue and those after a crash or a    *)
(* retry of dequeue included, every workitem that was enqueued and is not  *)
(* resolved has its entry under queue/<q> or under processing/<q>.  When   *)
(* dequeue returns a job, the job is under processing/<q> and no longer    *)
(* under queue/<q>; when restart_queues() returns, every unresolved job of *)
(* a restarted queue is under queue/<q> and not under processing/<q>.      *)
(***************************************************************************)
C36_Live(r) == enq[r] # NoEnq /\ r \notin resolved

C36_In(store, phase, r) ==
    \E e \in store :
        e.phase = phase /\ e.q = enq[r].q /\ e.job = <<enq[r].due, r>>

C36_Present ==
    \A r \in Rands :
        C36_Live(r) => C36_In(kv, "queue", r) \/ C36_In(kv, "processing", r)

C36_DequeueDone ==
    \A d \in disp :
        (dpc[d] = "delete" /\ dpc'[d] = "work" /\ C36_Live(djob[d][2])) =>
            /\ C36_In(kv', "processing", djob[d][2])
            /\ ~C36_In(kv', "queue", djob[d][2])

C36_Restarted ==
    {RestartQueueNames(isNetNode)[i] :
        i \in 1..Len(RestartQueueNames(isNetNode))}

C36_RestartDone ==
    (rpc # "off" /\ rpc' = "off") =>
        \A r \in Rands :
            (C36_Live(r) /\ enq[r].q \in C36_Restarted) =>
                /\ C36_In(kv', "queue", r)
                /\ ~C36_In(kv', "processing", r)

C37_Of(store, phase, q) == {e \in store : e.phase = phase /\ e.q = q}

C37_OthersKept(q) ==
    \A e \in kv \cup kv' : e.q # q => (e \in kv /\ e \in kv')

C37_DequeueStep ==
    \A d \in disp :
        /\ (dpc[d] = "read" /\ dpc'[d] = "put") =>
               /\ \E e \in C37_Of(kv, "queue", dq[d]) : djob'[d] = e.job
               /\ kv' = kv
        /\ (dpc[d] = "read" /\ dpc'[d] = "none") =>
               /\ \A e \in C37_Of(kv, "queue", dq[d]) :
                      \E f \in C37_Of(kv, "queue", dq[d]) : f.job[1] > now
               /\ kv' = kv
        /\ (dpc[d] \in {"put", "delete"} /\ dpc'[d] # dpc[d]) =>
               C37_OthersKept(dq[d])

C37_RestartStep ==
    /\ (rpc \in {"boot", "next"} /\ rpc' = "put") =>
           /\ {rlist'[i] : i \in 1..Len(rlist')}
                  = C37_Of(kv, "processing", rq')
           /\ kv' = kv
    /\ (rpc \in {"put", "delete"} /\ rpc' # rpc) => C37_OthersKept(rq)

C37_LengthStep ==
    lastLen' # lastLen =>
        /\ lastLen'.processing
               = Cardinality(C37_Of(kv, "processing", lastLen'.q))
        /\ lastLen'.queued
               = Cardinality({e \in C37_Of(kv, "queue", lastLen'.q) :
                                 e.job[1] <= now})
        /\ lastLen'.deferred
               = Cardinality({e \in C37_Of(kv, "queue", lastLen'.q) :
                                 e.job[1] > now})
        /\ kv' = kv

C37_QueueIsolation ==
    [][C37_DequeueStep /\ C37_RestartStep /\ C37_LengthStep]_vars

\* get_queue_length('node1') has counted nothing queued while an entry is
\* queued for 'node10', and the dispatcher took a job of 'node1' while a job
\* of 'node10' has a smaller key.
C37_Witness ==
    /\ lastLen.q = LocalNode
    /\ lastLen.queued = 0
    /\ lastLen.n = 1
    /\ C37_Of(kv, "queue", LocalNode) = {}
    /\ C37_Of(kv, "queue", OtherNode) # {}
    /\ dpc[1] = "work"
    /\ dq[1] = LocalNode
    /\ \E e \in C37_Of(kv, "queue", OtherNode) : KeyLess(e.job, djob[1])

(***************************************************************************)
(* C38.  What clear_stale_locks() deletes.                                 *)
(***************************************************************************)
\* The step is a turn of the loop of clear_stale_locks() that deletes key k.
C38_Deletes(k) ==
    /\ spc = "scan"
    /\ slist # <<>>
    /\ slist' = Tail(slist)
    /\ Head(slist).key = k
    /\ locks[k] # NoHolder
    /\ locks'[k] = NoHolder

\* clear_stale_locks() deletes a key only when the holder it read for the
\* key is of the local node and has a pid that is not running there.
C38_DeletesWhatWasReadStale ==
    [][\A k \in LockKeys :
          C38_Deletes(k) =>
              /\ Head(slist).holder.node = LocalNode
              /\ ~PidExists(Head(slist).holder.pid)]_vars

\* C38: clear_stale_locks() on the local node never deletes a lock whose
\* holder is of another node, nor a lock whose holder's pid is a running
\* process of the local node.
C38_OnlyStaleDeleted ==
    [][\A k \in LockKeys :
          C38_Deletes(k) =>
              /\ locks[k].node = LocalNode
              /\ ~PidExists(locks[k].pid)]_vars

(***************************************************************************)
(* C7.  dequeue is atomic: with two dispatchers calling dequeue(q) on the  *)
(* same queue, no jobname is handed out twice without a restart_queues()   *)
(* in between.                                                             *)
(***************************************************************************)
C7_HandedOutOnce ==
    \A r \in Rands : handed[r] <= 1

====
